---- MODULE Spec2Model ----
(***************************************************************************)
(* Model of the place-discovery pipeline of BackendCusMan (src/src/db.js): *)
(* the job lifecycle of POST /v1/search and its background worker, the     *)
(* import of a job's CSV snapshot into the clienti registry, the retrying  *)
(* HTTP client httpGet, and the pure helpers they use (normStr, geoCell,   *)
(* haversineMeters, jaroWinkler, dedupPlaces, placesToCsv, parseCsv).      *)
(*                                                                         *)
(* Text is a sequence of characters; a character is a one-character TLA+   *)
(* string, and a multi-character string such as "name" stands for a run of *)
(* ordinary characters (no comma, quote, line break or white space) that   *)
(* no function of the program looks inside.  A nullable SQL column or JS   *)
(* value is a sequence of length 0 (null) or 1 (the value).                *)
(***************************************************************************)
EXTENDS Integers, Sequences, FiniteSets, TLC

\* ------------------------------------------------------------------------
\* Generic helpers on sequences
\* ------------------------------------------------------------------------
Min(a, b) == IF a <= b THEN a ELSE b
Max(a, b) == IF a >= b THEN a ELSE b
Abs(a) == IF a >= 0 THEN a ELSE 0 - a

RECURSIVE Concat(_)
\* Array.prototype.join('') of a sequence of texts
Concat(ss) == IF ss = <<>> THEN <<>> ELSE Head(ss) \o Concat(Tail(ss))

RECURSIVE Join(_, _)
\* Array.prototype.join(sep)
Join(ss, sep) ==
  IF ss = <<>> THEN <<>>
  ELSE IF Len(ss) = 1 THEN ss[1]
  ELSE ss[1] \o sep \o Join(Tail(ss), sep)

RECURSIVE SeqsUpTo(_, _)
\* all sequences over S of length at most n
SeqsUpTo(S, n) ==
  IF n = 0 THEN {<<>>}
  ELSE LET shorter == SeqsUpTo(S, n - 1)
       IN  shorter \cup {Append(s, x) : s \in {t \in shorter : Len(t) = n - 1}, x \in S}

\* a nullable value: <<>> is null, <<v>> is v
NULL == <<>>
Some(v) == <<v>>

\* ------------------------------------------------------------------------
\* Characters and String.prototype helpers
\* ------------------------------------------------------------------------
\* white space of String.prototype.trim and of the regular expression \s; "BOM"
\* is the character U+FEFF
IsSpace(c) == c \in {" ", "\t", "\n", "\r", "BOM"}

\* String.prototype.toLowerCase on the letters the model uses
toLowerCase(c) ==
  CASE c = "A" -> "a"
    [] c = "B" -> "b"
    [] OTHER -> c

RECURSIVE TrimStart(_)
TrimStart(s) ==
  IF s = <<>> THEN <<>>
  ELSE IF IsSpace(Head(s)) THEN TrimStart(Tail(s)) ELSE s

RECURSIVE TrimEnd(_)
TrimEnd(s) ==
  IF s = <<>> THEN <<>>
  ELSE IF IsSpace(s[Len(s)]) THEN TrimEnd(SubSeq(s, 1, Len(s) - 1)) ELSE s

\* String.prototype.trim
trim(s) == TrimEnd(TrimStart(s))

RECURSIVE CollapseSpaces(_)
\* s.replace(/\s+/g, ' ')
CollapseSpaces(s) ==
  IF s = <<>> THEN <<>>
  ELSE IF IsSpace(Head(s))
       THEN <<" ">> \o CollapseSpaces(TrimStart(s))
       ELSE <<Head(s)>> \o CollapseSpaces(Tail(s))

\* normStr: (s || '').toString().trim().toLowerCase().replace(/\s+/g,' ');
\* an undefined or null s is the empty text
normStr(s) ==
  LET t == trim(s)
  IN  CollapseSpaces([i \in 1..Len(t) |-> toLowerCase(t[i])])

RECURSIVE Split(_, _)
\* String.prototype.split(sep) for a one-character separator
Split(s, sep) ==
  IF \A i \in 1..Len(s) : s[i] # sep THEN <<s>>
  ELSE LET i == CHOOSE k \in 1..Len(s) : s[k] = sep /\ \A h \in 1..(k - 1) : s[h] # sep
       IN  <<SubSeq(s, 1, i - 1)>> \o Split(SubSeq(s, i + 1, Len(s)), sep)

\* guessCity: the second non-empty comma-separated part of the address, or null
guessCity(address) ==
  IF address = <<>> THEN NULL
  ELSE LET pieces == Split(address, ",")
           parts == SelectSeq([i \in 1..Len(pieces) |-> trim(pieces[i])],
                              LAMBDA p : p # <<>>)
       IN  IF Len(parts) >= 2 THEN Some(parts[2]) ELSE NULL

\* ------------------------------------------------------------------------
\* GeoMath.  A latitude or longitude is an integer number of 1e-5 degrees
\* (41.90009 degrees is 4190009); undefined is the value Undefined.
\* ------------------------------------------------------------------------
Undefined == -1

isNumber(x) == x # Undefined

\* Number.prototype.toFixed(3): the nearest thousandth of a degree, written
\* as the number of thousandths (the model's coordinates avoid exact ties)
toFixed3(x) ==
  IF x >= 0 THEN ToString((x + 50) \div 100)
  ELSE "-" \o ToString((50 - x) \div 100)

\* geoCell: `${lat.toFixed(3)},${lng.toFixed(3)}`
geoCell(lat, lng) == <<toFixed3(lat), ",", toFixed3(lng)>>

\* millimetres of great circle per 1e-5 degree of latitude (R = 6371000 m):
\* 6371000 * pi / 180 * 1e-5 m = 1.11195 m
MmPerUnitLat == 1112
\* millimetres per 1e-5 degree of longitude at the model's latitude (41.9
\* degrees north): 1.11195 m * cos(41.9 deg) = 0.8276 m
MmPerUnitLng == 828

\* haversineMeters, in millimetres.  On one meridian (lng1 = lng2) the
\* haversine formula reduces to R * |lat1 - lat2| (in radians), which is what
\* this computes; for two points on different meridians it returns the larger
\* of the two legs, a lower bound of the distance.  The model's longitudes
\* are at least 0.001 degree (82 m) apart when they differ, so the comparison
\* with 50 m, the only use the program makes of the distance, is decided
\* exactly.
haversineMeters(lat1, lng1, lat2, lng2) ==
  Max(Abs(lat1 - lat2) * MmPerUnitLat, Abs(lng1 - lng2) * MmPerUnitLng)

\* ---- jaroWinkler ----
RECURSIVE JaroMatch(_, _, _, _, _)
\* the first loop of jaroWinkler: for i = 1..Len(s1), the first unmatched j of
\* s2 within the window [i - mDist, i + mDist] with s1[i] = s2[j] is matched
\* with i.  m1, m2: the matched positions of s1 and s2 so far.
JaroMatch(s1, s2, i, m1, m2) ==
  IF i > Len(s1) THEN <<m1, m2>>
  ELSE LET mDist == (Max(Len(s1), Len(s2)) \div 2) - 1
           start == Max(1, i - mDist)
           end   == Min(i + mDist, Len(s2))
           cand  == {j \in start..end : j \notin m2 /\ s1[i] = s2[j]}
       IN  IF cand = {} THEN JaroMatch(s1, s2, i + 1, m1, m2)
           ELSE LET j == CHOOSE x \in cand : \A y \in cand : x <= y
                IN  JaroMatch(s1, s2, i + 1, m1 \cup {i}, m2 \cup {j})

\* the matched characters of s, in order
Matched(s, m) ==
  LET Pick[i \in 0..Len(s)] ==
        IF i = 0 THEN <<>>
        ELSE IF i \in m THEN Append(Pick[i - 1], s[i]) ELSE Pick[i - 1]
  IN  Pick[Len(s)]

\* the second loop: the number of matched positions whose characters differ
\* (t before the halving)
JaroTranspositions(s1, s2, m1, m2) ==
  LET a == Matched(s1, m1)
      b == Matched(s2, m2)
  IN  Cardinality({k \in 1..Len(a) : a[k] # b[k]})

\* l: [...s1].findIndex((c,i) => s2[i] !== c) === -1, that is s1 is a prefix
\* of s2, gives min(4, s1.length, s2.length), anything else gives 0
JaroPrefix(s1, s2) ==
  IF \A i \in 1..Len(s1) : i <= Len(s2) /\ s2[i] = s1[i]
  THEN Min(4, Min(Len(s1), Len(s2)))
  ELSE 0

\* jaroWinkler(s1, s2) as an exact fraction <<numerator, denominator>>:
\*   j = (m/|s1| + m/|s2| + (m - t/2)/m) / 3,  result = j + 0.1 * l * (1 - j)
jaroWinkler(a, b) ==
  LET s1 == normStr(a)
      s2 == normStr(b)
  IN  IF s1 = <<>> \/ s2 = <<>> THEN <<0, 1>>
      ELSE LET mm == JaroMatch(s1, s2, 1, {}, {})
               m  == Cardinality(mm[1])
           IN  IF m = 0 THEN <<0, 1>>
               ELSE LET t == JaroTranspositions(s1, s2, mm[1], mm[2])
                        D == 6 * Len(s1) * Len(s2) * m
                        N == 2 * m * m * Len(s2) + 2 * m * m * Len(s1)
                               + (2 * m - t) * Len(s1) * Len(s2)
                        l == JaroPrefix(s1, s2)
                    IN  <<10 * N + l * (D - N), 10 * D>>

\* q >= 0.88 for a fraction q
AtLeast088(q) == 100 * q[1] >= 88 * q[2]

\* ------------------------------------------------------------------------
\* Deduplicator.  A place is a record
\*   [name, address, phone, website : text ("" for null or undefined),
\*    rating : Nat (0 for null), lat, lng, categories : sequence of texts,
\*    placeIds : [provider -> id], source : provider name]
\* as googleSearchAndDetails builds it (reviewsCount and openingHours, which
\* nothing downstream reads, are left out); dedupPlaces adds sources.
\* ------------------------------------------------------------------------

\* isComplete without the typeof tests: a place without a location is kept
isCompleteIgnoresCoordinates(p) == p.name # <<>> /\ p.address # <<>>

\* the test of line 255: a place lacking a name, an address or a numeric
\* latitude or longitude is skipped
isComplete(p) ==
  p.name # <<>> /\ p.address # <<>> /\ isNumber(p.lat) /\ isNumber(p.lng)

\* the key of the exact pass
dedupKey(p) ==
  normStr(p.name) \o <<"|">> \o normStr(p.address) \o <<"|">> \o geoCell(p.lat, p.lng)

\* Array.from(new Set([...a, ...b])): a followed by the new elements of b
RECURSIVE unionSeq(_, _)
unionSeq(a, b) ==
  IF b = <<>> THEN a
  ELSE IF \E i \in 1..Len(a) : a[i] = Head(b)
       THEN unionSeq(a, Tail(b))
       ELSE unionSeq(Append(a, Head(b)), Tail(b))

\* { ...a, ...b }: the keys of both, b's value where both have the key
spread(a, b) == b @@ a

\* the merge of lines 261-267 (exact pass): incoming place p into cur
mergeExact(cur, p) ==
  [cur EXCEPT
     !.sources  = unionSeq(cur.sources, IF p.source = "" THEN <<>> ELSE <<p.source>>),
     !.placeIds = spread(cur.placeIds, p.placeIds),
     !.website  = IF cur.website = <<>> /\ p.website # <<>> THEN p.website ELSE @,
     !.phone    = IF cur.phone = <<>> /\ p.phone # <<>> THEN p.phone ELSE @,
     !.rating   = IF p.rating > cur.rating THEN p.rating ELSE @]

\* mergeFuzzy also taking the location of the incoming place
mergeFuzzyTakesLocation(dup, p) ==
  [dup EXCEPT
     !.sources  = unionSeq(dup.sources, p.sources),
     !.placeIds = spread(dup.placeIds, p.placeIds),
     !.website  = IF dup.website = <<>> /\ p.website # <<>> THEN p.website ELSE @,
     !.phone    = IF dup.phone = <<>> /\ p.phone # <<>> THEN p.phone ELSE @,
     !.rating   = IF p.rating > dup.rating THEN p.rating ELSE @,
     !.lat      = p.lat,
     !.lng      = p.lng]

\* the merge of lines 279-283 (fuzzy pass): merged place p into dup
mergeFuzzy(dup, p) ==
  [dup EXCEPT
     !.sources  = unionSeq(dup.sources, p.sources),
     !.placeIds = spread(dup.placeIds, p.placeIds),
     !.website  = IF dup.website = <<>> /\ p.website # <<>> THEN p.website ELSE @,
     !.phone    = IF dup.phone = <<>> /\ p.phone # <<>> THEN p.phone ELSE @,
     !.rating   = IF p.rating > dup.rating THEN p.rating ELSE @]

\* { ...p, sources: [p.source].filter(Boolean) }
withSources(p) ==
  [name |-> p.name, address |-> p.address, phone |-> p.phone,
   website |-> p.website, rating |-> p.rating, lat |-> p.lat, lng |-> p.lng,
   categories |-> p.categories, placeIds |-> p.placeIds, source |-> p.source,
   sources |-> IF p.source = "" THEN <<>> ELSE <<p.source>>]

RECURSIVE exactPass(_, _, _)
\* the first loop of dedupPlaces; keys[i] is the key byKey maps to index i
exactPass(arr, result, keys) ==
  IF arr = <<>> THEN result
  ELSE LET p == Head(arr)
       IN  IF ~isComplete(p) THEN exactPass(Tail(arr), result, keys)
           ELSE LET key == dedupKey(p)
                IN  IF \E i \in 1..Len(keys) : keys[i] = key
                    THEN LET idx == CHOOSE i \in 1..Len(keys) : keys[i] = key
                         IN  exactPass(Tail(arr),
                                       [result EXCEPT ![idx] = mergeExact(@, p)], keys)
                    ELSE exactPass(Tail(arr), Append(result, withSources(p)),
                                   Append(keys, key))

\* the predicate of final.find: within 50 m and name similarity >= 0.88
isFuzzyDup(p, q) ==
  /\ haversineMeters(p.lat, p.lng, q.lat, q.lng) <= 50 * 1000
  /\ AtLeast088(jaroWinkler(p.name, q.name))

\* find returning the last match instead of the first
lastHit(hits) == CHOOSE i \in hits : \A h \in hits : i >= h

\* Array.prototype.find: the first position that matches
firstHit(hits) == CHOOSE i \in hits : \A h \in hits : i <= h

RECURSIVE fuzzyPass(_, _)
\* the second loop of dedupPlaces
fuzzyPass(result, final) ==
  IF result = <<>> THEN final
  ELSE LET p == Head(result)
           hits == {i \in 1..Len(final) : isFuzzyDup(p, final[i])}
       IN  IF hits # {}
           THEN LET d == firstHit(hits)
                IN  fuzzyPass(Tail(result), [final EXCEPT ![d] = mergeFuzzy(@, p)])
           ELSE fuzzyPass(Tail(result), Append(final, p))

dedupPlaces(arr) == fuzzyPass(exactPass(arr, <<>>, <<>>), <<>>)

\* ------------------------------------------------------------------------
\* RecordCodec
\* ------------------------------------------------------------------------
RECURSIVE doubleQuotes(_)
\* s.replaceAll('"', '""')
doubleQuotes(s) ==
  IF s = <<>> THEN <<>>
  ELSE (IF Head(s) = "\"" THEN <<"\"", "\"">> ELSE <<Head(s)>>) \o doubleQuotes(Tail(s))

\* csvEscape without the replaceAll: inner quotes are written as they are
csvEscapeNoDoubling(v) == <<"\"">> \o v \o <<"\"">>

\* csvEscape: every value is wrapped in double quotes, inner quotes doubled
csvEscape(v) == <<"\"">> \o doubleQuotes(v) \o <<"\"">>

csvHeader ==
  << <<"id">>, <<"name">>, <<"site">>, <<"city">>, <<"category">>,
     <<"email_1">>, <<"email_2">>, <<"email_3">>,
     <<"phone_1">>, <<"phone_2">>, <<"phone_3">>,
     <<"latitude">>, <<"longitude">>, <<"assign">>, <<"contact_method">>,
     <<"data_start">>, <<"data_follow_up_1">>, <<"data_follow_up_2">>,
     <<"status">>, <<"note">> >>

NonContattato == <<"Non", " ", "contattato">>

\* String(p.lat): the decimal text of a number, a run of ordinary characters
numberText(x) == <<ToString(x)>>

\* the 20 fields of the row placesToCsv writes for place p
csvRow(p) ==
  LET category == IF p.categories # <<>> THEN p.categories[1] ELSE <<>>
      c == guessCity(p.address)
      city == IF c = NULL THEN <<>> ELSE c[1]
  IN  << <<>>, p.name, p.website, city, category, <<>>, <<>>, <<>>,
         p.phone, <<>>, <<>>,
         IF p.lat # Undefined THEN numberText(p.lat) ELSE <<>>,
         IF p.lng # Undefined THEN numberText(p.lng) ELSE <<>>,
         <<>>, <<>>, <<>>, <<>>, <<>>, NonContattato, <<>> >>

\* placesToCsv: the header line and one line per place, joined by "\n"
placesToCsv(places) ==
  Join(<<Join(csvHeader, <<",">>)>>
         \o [i \in 1..Len(places) |->
               Join([k \in 1..Len(csvHeader) |-> csvEscape(csvRow(places[i])[k])], <<",">>)],
       <<"\n">>)

\* one iteration of the character loop of parseCsv at position i (from 1).
\* st = [rows, cur, field, inQ, skip]: the finished rows, the fields of the
\* current row, the current field, whether a quoted field is open, and
\* whether the previous iteration consumed this character as well (the i++
\* after a doubled quote or after the "\r" of "\r\n")
parseChar(text, st, i) ==
  LET c == text[i]
      next == IF i < Len(text) THEN <<text[i + 1]>> ELSE <<>>
  IN  IF st.skip THEN [st EXCEPT !.skip = FALSE]
      ELSE IF st.inQ
           THEN IF c = "\""
                THEN IF next = <<"\"">>
                     THEN [st EXCEPT !.field = Append(@, "\""), !.skip = TRUE]
                     ELSE [st EXCEPT !.inQ = FALSE]
                ELSE [st EXCEPT !.field = Append(@, c)]
      ELSE IF c = "\"" THEN [st EXCEPT !.inQ = TRUE]
      ELSE IF c = "," THEN [st EXCEPT !.cur = Append(@, st.field), !.field = <<>>]
      ELSE IF c = "\n" \/ c = "\r"
           THEN [st EXCEPT !.rows = Append(@, Append(st.cur, st.field)),
                           !.cur = <<>>, !.field = <<>>,
                           !.skip = (c = "\r" /\ next = <<"\n">>)]
      ELSE [st EXCEPT !.field = Append(@, c)]

RECURSIVE parseLoop(_, _, _, _)
\* the iterations at positions lo..hi, in order (halving keeps the evaluation
\* shallow on long texts)
parseLoop(text, st, lo, hi) ==
  IF lo > hi THEN st
  ELSE IF lo = hi THEN parseChar(text, st, lo)
  ELSE LET mid == (lo + hi) \div 2
           left == parseLoop(text, st, lo, mid)
       IN  \* the test makes TLC evaluate the first half before the second
           IF left.skip \in BOOLEAN THEN parseLoop(text, left, mid + 1, hi) ELSE st

\* the rows parseCsv collects: the loop, then the last field and row
parseRows(text) ==
  LET st == parseLoop(text, [rows |-> <<>>, cur |-> <<>>, field |-> <<>>,
                             inQ |-> FALSE, skip |-> FALSE], 1, Len(text))
  IN  IF st.field # <<>> \/ st.cur # <<>>
      THEN Append(st.rows, Append(st.cur, st.field))
      ELSE st.rows

\* h.replace(/^\uFEFF/, '').trim()
headerName(h) == trim(IF h # <<>> /\ Head(h) = "BOM" THEN Tail(h) ELSE h)

\* the object parseCsv builds for row r: header[k] -> r[k] for the positions
\* both have, a later column winning over an earlier one of the same name
rowObject(header, r) ==
  LET n == Min(Len(header), Len(r))
  IN  [h \in {header[k] : k \in 1..n} |->
         r[CHOOSE k \in 1..n : header[k] = h /\ \A k2 \in 1..n : header[k2] = h => k2 <= k]]

\* parseCsv: a sequence of row objects
parseCsv(text) ==
  IF text = <<>> THEN <<>>
  ELSE LET rows == parseRows(text)
       IN  IF rows = <<>> THEN <<>>
           ELSE LET header == [k \in 1..Len(rows[1]) |-> headerName(rows[1][k])]
                IN  [i \in 1..(Len(rows) - 1) |-> rowObject(header, rows[i + 1])]

\* r[key] || '' on a row object
field(r, key) == IF <<key>> \in DOMAIN r THEN r[<<key>>] ELSE <<>>

\* ------------------------------------------------------------------------
\* JobOrchestrator: POST /v1/search and its background worker
\* ------------------------------------------------------------------------
JobIds == {"j1", "j2"}

\* a request body after the Number(...) conversions of lines 345-351: limit
\* and name are nullable, lat and lng are in 1e-5 degrees
validName == <<"N">>
blankName == <<" ">>

Req(radius, limit, name) ==
  [query |-> <<"bakery">>, lat |-> 4190000, lng |-> 1250000,
   radius_m |-> radius, limit |-> limit, name |-> name]

Requests ==
  {Req(1000, Some(10), NULL), Req(1000, NULL, Some(validName)),
   Req(1000, NULL, Some(blankName)), Req(49, NULL, NULL), Req(1000, Some(201), NULL)}

\* SearchSchema without the range of radius_m
SearchSchemaNoRadius(r) ==
  /\ Len(r.query) >= 1
  /\ r.lat >= -90 * 100000 /\ r.lat <= 90 * 100000
  /\ r.lng >= -180 * 100000 /\ r.lng <= 180 * 100000
  /\ (r.limit # NULL => r.limit[1] >= 1 /\ r.limit[1] <= 200)
  /\ (r.name # NULL => Len(r.name[1]) >= 1 /\ Len(r.name[1]) <= 255)

\* SearchSchema.parse succeeds
SearchSchemaOk(r) ==
  /\ Len(r.query) >= 1
  /\ r.lat >= -90 * 100000 /\ r.lat <= 90 * 100000
  /\ r.lng >= -180 * 100000 /\ r.lng <= 180 * 100000
  /\ r.radius_m >= 50 /\ r.radius_m <= 50000
  /\ (r.limit # NULL => r.limit[1] >= 1 /\ r.limit[1] <= 200)
  /\ (r.name # NULL => Len(r.name[1]) >= 1 /\ Len(r.name[1]) <= 255)

\* parsed.name && String(parsed.name).trim(): the caller supplied a name
hasCustomName(parsed) == parsed.name # NULL /\ trim(parsed.name[1]) # <<>>

\* `${city} ${formatDateTimeIT(now)} ${radius_m}m ${limit}`
friendlyName(city, parsed) ==
  city \o <<" ", "dd/mm/yyyy hh:mm", " ", ToString(parsed.radius_m), "m", " ",
            ToString(IF parsed.limit # NULL THEN parsed.limit[1] ELSE 50)>>

Sconosciuta == <<"Sconosciuta">>

\* lines 356-357
initialName(parsed) ==
  IF hasCustomName(parsed) THEN trim(parsed.name[1]) ELSE friendlyName(Sconosciuta, parsed)

\* lines 381-391: the most frequent guessCity among the places, the first
\* one counted winning a tie (Map iteration order, strict >); null when no
\* place has a city
bestCity(unique) ==
  LET cities == [i \in 1..Len(unique) |-> guessCity(unique[i].address)]
      idx == {i \in 1..Len(unique) : cities[i] # NULL}
      count(i) == Cardinality({k \in idx : cities[k] = cities[i]})
      first == {i \in idx : \A k \in idx : cities[k] = cities[i] => i <= k}
  IN  IF idx = {} THEN NULL
      ELSE cities[CHOOSE i \in first :
                    \A k \in first : \/ count(i) > count(k)
                                     \/ count(i) = count(k) /\ i <= k]

\* line 394
finalName(unique, parsed) ==
  LET c == bestCity(unique)
  IN  friendlyName(IF c = NULL THEN Sconosciuta ELSE c[1], parsed)

\* String(e?.message || e) for an Error e with the given message
errorText(message) == IF message = "" THEN "Error" ELSE message

\* what a failed call throws: axios and mysql2 errors
ProviderErrors == {"Request failed with status code 500", ""}
DbError == "ECONNREFUSED"

NoRow == [absent |-> TRUE]

VARIABLES
  jobs,      \* the jobs table: job id -> row, NoRow before the INSERT
  pc,        \* per request and job: where its handler or its worker is
  resp,      \* per request: the response sent, "none" before
  parsed,    \* per request: the locals apiKey/parsed of the handler
  all,       \* per job: the worker's local `all` (the search output)
  err,       \* per job: the message of the error the worker caught, or null
  hist       \* per job: the writes applied to its row, [op, row after the write]

jobVars == <<jobs, pc, resp, parsed, all, err, hist>>

VARIABLES
  imp,       \* the locals of the import call in progress
  clienti,   \* the committed rows of the clienti table, in insertion order
  impResp,   \* the responses of the import calls made so far
  impCount   \* the number of import calls started

impVars == <<imp, clienti, impResp, impCount>>

VARIABLES
  http       \* one call of httpGet: where it is, its attempt, what it has seen

httpVars == <<http>>

VARIABLES
  gs         \* one call of googleSearchAndDetails: its locals and what it did

searchVars == <<gs>>

VARIABLES
  dd         \* one call of dedupPlaces: its argument and its locals

dedupVars == <<dd>>

VARIABLES
  sim        \* calls of jaroWinkler: the arguments and the values returned

simVars == <<sim>>

VARIABLES
  codec      \* a snapshot on its way through placesToCsv and parseCsv

codecVars == <<codec>>

VARIABLES
  cnt        \* the last response of GET /v1/jobs/:id/count

countVars == <<cnt>>

VARIABLES
  preq,        \* the partner router: the request in flight and its response
  partners   \* the ids of the rows of the clienti_partner table

partnerVars == <<preq, partners>>

VARIABLES
  rd         \* the last response of the preview and export handlers

readVars == <<rd>>

VARIABLES
  dbRow,     \* the row of the clienti table with the id of the requests
  redis,     \* the cache entry clienti:id:<id>, NULL when there is none
  wr,        \* the PUT or DELETE request on the id
  inval,     \* the cacheDelPrefix call the write fired
  gets       \* the GET requests on the id: request -> its position and answer

cacheVars == <<dbRow, redis, wr, inval, gets>>

VARIABLES
  pg         \* the search call of the worker, page by page

pagingVars == <<pg>>

\* what the job handlers and workers leave alone, what the import leaves
\* alone, what httpGet leaves alone, what googleSearchAndDetails leaves
\* alone, what dedupPlaces leaves alone
notJobVars ==
  <<impVars, httpVars, searchVars, dedupVars, simVars, codecVars, countVars, partnerVars, pagingVars,
    readVars, cacheVars>>
notImpVars ==
  <<jobVars, httpVars, searchVars, dedupVars, simVars, codecVars, countVars, partnerVars, pagingVars,
    readVars, cacheVars>>
notHttpVars ==
  <<jobVars, impVars, searchVars, dedupVars, simVars, codecVars, countVars, partnerVars, pagingVars,
    readVars, cacheVars>>
notSearchVars ==
  <<jobVars, impVars, httpVars, dedupVars, simVars, codecVars, countVars, partnerVars, pagingVars,
    readVars, cacheVars>>
notDedupVars ==
  <<jobVars, impVars, httpVars, searchVars, simVars, codecVars, countVars, partnerVars, pagingVars,
    readVars, cacheVars>>
notSimVars ==
  <<jobVars, impVars, httpVars, searchVars, dedupVars, codecVars, countVars, partnerVars, pagingVars,
    readVars, cacheVars>>
notCodecVars ==
  <<jobVars, impVars, httpVars, searchVars, dedupVars, simVars, countVars, partnerVars, pagingVars,
    readVars, cacheVars>>
notCountVars ==
  <<jobVars, impVars, httpVars, searchVars, dedupVars, simVars, codecVars, partnerVars, pagingVars,
    readVars, cacheVars>>
notPartnerVars ==
  <<jobVars, impVars, httpVars, searchVars, dedupVars, simVars, codecVars, countVars,
    pagingVars, readVars, cacheVars>>
notPagingVars ==
  <<impVars, httpVars, searchVars, dedupVars, simVars, codecVars, countVars, partnerVars,
    readVars, cacheVars>>
notReadVars ==
  <<jobVars, impVars, httpVars, searchVars, dedupVars, simVars, codecVars, countVars,
    partnerVars, pagingVars, cacheVars>>
notCacheVars ==
  <<jobVars, impVars, httpVars, searchVars, dedupVars, simVars, codecVars, countVars,
    partnerVars, pagingVars, readVars>>

\* an INSERT or UPDATE of the row of job j that succeeds; op names the
\* statement in hist
applyWrite(j, op, row) ==
  /\ jobs' = [jobs EXCEPT ![j] = row]
  /\ hist' = [hist EXCEPT ![j] = Append(@, [op |-> op, row |-> row])]

\* ---- POST /v1/search, the handler ----

\* lines 338-352: ensureSchema, the credential, the validation.  The request
\* ends here with an error, or goes on to the INSERT.
CreateJob(j, Reqs) ==
  /\ pc[j] = "none"
  /\ \E req \in Reqs, apiKey \in {"", "k1"}, schemaOk \in BOOLEAN :
       LET outcome == IF ~schemaOk THEN "job_create_failed"
                      ELSE IF apiKey = "" THEN "missing_google_places_key"
                      ELSE IF ~SearchSchemaOk(req) THEN "invalid_input"
                      ELSE "insert"
       IN  IF outcome = "insert"
           THEN /\ pc' = [pc EXCEPT ![j] = "insert"]
                /\ parsed' = [parsed EXCEPT ![j] = Some(req)]
                /\ resp' = resp
           ELSE /\ pc' = [pc EXCEPT ![j] = "rejected"]
                /\ resp' = [resp EXCEPT ![j] = outcome]
                /\ parsed' = parsed
  /\ UNCHANGED <<jobs, all, err, hist>>
  /\ UNCHANGED notJobVars

\* line 358: INSERT INTO jobs (id, name, status, progress, params); error and
\* results_csv take their default NULL.  A failed INSERT is the 500 of line 409.
CreateJobInsert(j) ==
  /\ pc[j] = "insert"
  /\ \E ok \in BOOLEAN :
       IF ok
       THEN /\ applyWrite(j, "insert", [status |-> "queued", progress |-> 0, error |-> NULL,
                        name |-> initialName(parsed[j][1]),
                        params |-> parsed[j][1], results_csv |-> NULL])
            /\ pc' = [pc EXCEPT ![j] = "inserted"]
            /\ resp' = resp
       ELSE /\ pc' = [pc EXCEPT ![j] = "rejected"]
            /\ resp' = [resp EXCEPT ![j] = "job_create_failed"]
            /\ UNCHANGED <<jobs, hist>>
  /\ UNCHANGED <<parsed, all, err>>
  /\ UNCHANGED notJobVars

\* lines 361 and 406: setImmediate queues the worker, res.json({ jobId })
CreateJobRespond(j) ==
  /\ pc[j] = "inserted"
  /\ pc' = [pc EXCEPT ![j] = "scheduled"]
  /\ resp' = [resp EXCEPT ![j] = "jobId"]
  /\ UNCHANGED <<jobs, parsed, all, err, hist>>
  /\ UNCHANGED notJobVars

\* ---- the background worker ----

\* a write of the worker that throws: control goes to the catch of line 401
toCatch(j, message) ==
  /\ pc' = [pc EXCEPT ![j] = "catch"]
  /\ err' = [err EXCEPT ![j] = Some(message)]

\* updRunning without the status: the worker would run with the row queued
updRunningKeepsStatus(row) == [row EXCEPT !.progress = 0, !.error = NULL]

\* the fields upd writes at line 369
updRunning(row) == [row EXCEPT !.status = "running", !.progress = 0, !.error = NULL]

\* line 369: upd({ status: 'running', progress: 0, error: null })
RunStart(j) ==
  /\ pc[j] = "scheduled"
  /\ \E ok \in BOOLEAN :
       IF ok
       THEN /\ applyWrite(j, "running", updRunning(jobs[j]))
            /\ pc' = [pc EXCEPT ![j] = "search"]
            /\ err' = err
       ELSE /\ toCatch(j, DbError)
            /\ UNCHANGED <<jobs, hist>>
  /\ UNCHANGED <<resp, parsed, all>>
  /\ UNCHANGED notJobVars

\* line 373, first half: googleSearchAndDetails returns places or throws
RunSearch(j, Results) ==
  /\ pc[j] = "search"
  /\ \/ \E places \in Results :
          /\ all' = [all EXCEPT ![j] = places]
          /\ pc' = [pc EXCEPT ![j] = "progress"]
          /\ err' = err
     \/ \E message \in ProviderErrors :
          /\ toCatch(j, message)
          /\ all' = all
  /\ UNCHANGED <<jobs, resp, parsed, hist>>
  /\ UNCHANGED notJobVars

\* Math.round((++done / steps) * 100) with steps = 1, done = 0
progressAfterSearch == ((0 + 1) * 100) \div 1

\* the worker going on to the snapshot without the write of the progress
RunProgressSkipped(j) ==
  /\ pc[j] = "progress"
  /\ pc' = [pc EXCEPT ![j] = "csv"]
  /\ UNCHANGED <<jobs, resp, parsed, all, err, hist>>
  /\ UNCHANGED notJobVars

\* line 373, second half: upd({ progress: ... })
RunProgress(j) ==
  /\ pc[j] = "progress"
  /\ \E ok \in BOOLEAN :
       IF ok
       THEN /\ applyWrite(j, "progress", [jobs[j] EXCEPT !.progress = progressAfterSearch])
            /\ pc' = [pc EXCEPT ![j] = "csv"]
            /\ err' = err
       ELSE /\ toCatch(j, DbError)
            /\ UNCHANGED <<jobs, hist>>
  /\ UNCHANGED <<resp, parsed, all>>
  /\ UNCHANGED notJobVars

\* RunSnapshot without the try/catch of lines 375-378: a failure of the UPDATE
\* goes to the catch of the worker
RunSnapshotThrows(j) ==
  /\ pc[j] = "csv"
  /\ \E ok \in BOOLEAN :
       IF ok
       THEN /\ applyWrite(j, "csv", [jobs[j] EXCEPT
                                !.results_csv = Some(placesToCsv(dedupPlaces(all[j])))])
            /\ pc' = [pc EXCEPT ![j] = "complete"]
            /\ err' = err
       ELSE /\ toCatch(j, DbError)
            /\ UNCHANGED <<jobs, hist>>
  /\ UNCHANGED <<resp, parsed, all>>
  /\ UNCHANGED notJobVars

\* lines 374-379: dedupPlaces, placesToCsv, UPDATE jobs SET results_csv; a
\* failure of the UPDATE is swallowed by the empty catch
RunSnapshot(j) ==
  /\ pc[j] = "csv"
  /\ \E ok \in BOOLEAN :
       IF ok
       THEN applyWrite(j, "csv", [jobs[j] EXCEPT
                             !.results_csv = Some(placesToCsv(dedupPlaces(all[j])))])
       ELSE UNCHANGED <<jobs, hist>>
  /\ pc' = [pc EXCEPT ![j] = "complete"]
  /\ UNCHANGED <<resp, parsed, all, err>>
  /\ UNCHANGED notJobVars

\* updCompleted writing the friendly name over a name the caller supplied
updCompletedAlwaysNames(row, p, unique) ==
  [row EXCEPT !.status = "completed", !.progress = 100, !.name = finalName(unique, p)]

\* the fields upd writes at lines 396-400
updCompleted(row, p, unique) ==
  IF hasCustomName(p)
  THEN [row EXCEPT !.status = "completed", !.progress = 100]
  ELSE [row EXCEPT !.status = "completed", !.progress = 100,
                   !.name = finalName(unique, p)]

\* lines 380-400: the friendly name, then upd({ status: 'completed', ... })
RunComplete(j) ==
  /\ pc[j] = "complete"
  /\ \E ok \in BOOLEAN :
       IF ok
       THEN /\ applyWrite(j, "completed",
                            updCompleted(jobs[j], parsed[j][1], dedupPlaces(all[j])))
            /\ pc' = [pc EXCEPT ![j] = "done"]
            /\ err' = err
       ELSE /\ toCatch(j, DbError)
            /\ UNCHANGED <<jobs, hist>>
  /\ UNCHANGED <<resp, parsed, all>>
  /\ UNCHANGED notJobVars

\* updFailed putting the job back in the queue instead of ending it
updFailedRequeues(row, message) ==
  [row EXCEPT !.status = "queued", !.error = Some(errorText(message))]

\* updFailed resetting the progress
updFailedResetsProgress(row, message) ==
  [row EXCEPT !.status = "failed", !.progress = 0, !.error = Some(errorText(message))]

\* updFailed without the message
updFailedNoMessage(row, message) == [row EXCEPT !.status = "failed"]

\* updFailed without the status
updFailedKeepsStatus(row, message) == [row EXCEPT !.error = Some(errorText(message))]

\* the fields the catch writes at line 402
updFailed(row, message) ==
  [row EXCEPT !.status = "failed", !.error = Some(errorText(message))]

\* lines 401-403: UPDATE jobs SET status = 'failed', error = ...; this write
\* is not guarded, so its failure rejects the promise of the callback, which
\* nothing awaits
RunCatch(j) ==
  /\ pc[j] = "catch"
  /\ \E ok \in BOOLEAN :
       IF ok
       THEN /\ applyWrite(j, "failed", updFailed(jobs[j], err[j][1]))
            /\ pc' = [pc EXCEPT ![j] = "done"]
       ELSE /\ pc' = [pc EXCEPT ![j] = "unhandled"]
            /\ UNCHANGED <<jobs, hist>>
  /\ UNCHANGED <<resp, parsed, all, err>>
  /\ UNCHANGED notJobVars

\* ------------------------------------------------------------------------
\* POST /v1/jobs/:id/import: the snapshot into the clienti registry
\* ------------------------------------------------------------------------
\* how many import calls the model makes
MaxImports == 2

ImpIdle == [pc |-> "idle"]

\* clientiRow without the trim of the name: a blank name counts as a name
clientiRowUntrimmed(r, call) ==
  [name |-> field(r, "name"), city |-> field(r, "city"),
   category |-> field(r, "category"), site |-> field(r, "site"),
   phone_1 |-> field(r, "phone_1"), status |-> NonContattato, call |-> call]

\* the values of one INSERT INTO clienti (lines 515-524); call tags the row
\* with the import call that made it
clientiRow(r, call) ==
  [name |-> trim(field(r, "name")), city |-> field(r, "city"),
   category |-> field(r, "category"), site |-> field(r, "site"),
   phone_1 |-> field(r, "phone_1"), status |-> NonContattato, call |-> call]

\* a response of the import handler
impOk(j, call, inserted, total, snap) ==
  [kind |-> "ok", job |-> j, call |-> call, inserted |-> inserted, total |-> total,
   snapshot |-> snap]
\* executed: the INSERTs the call had executed when it failed
impError(j, call, error, executed) ==
  [kind |-> error, job |-> j, call |-> call, executed |-> executed]

\* lines 504-509: ensureSchema, SELECT results_csv, parseCsv
ImportRead(j) ==
  /\ imp.pc = "idle"
  /\ impCount < MaxImports
  /\ impCount' = impCount + 1
  /\ \E ok \in BOOLEAN :
       IF ~ok
       THEN /\ impResp' = Append(impResp, impError(j, impCount + 1, "import_failed", 0))
            /\ imp' = imp
       ELSE IF jobs[j] = NoRow
       THEN /\ impResp' = Append(impResp, impError(j, impCount + 1, "not_found", 0))
            /\ imp' = imp
       ELSE /\ imp' = [pc |-> "connect", job |-> j, call |-> impCount + 1,
                       snapshot |-> jobs[j].results_csv # NULL,
                       arr |-> parseCsv(IF jobs[j].results_csv = NULL THEN <<>>
                                        ELSE jobs[j].results_csv[1]),
                       k |-> 1, inserted |-> 0, tx |-> <<>>]
            /\ impResp' = impResp
  /\ UNCHANGED clienti
  /\ UNCHANGED notImpVars

\* importFail without the rollback: what was inserted so far stays
importFailKeepsRows ==
  /\ impResp' = Append(impResp, impError(imp.job, imp.call, "import_failed", Len(imp.tx)))
  /\ imp' = ImpIdle
  /\ clienti' = clienti \o imp.tx

\* the catch and finally of lines 528-533 and the catch of line 535: the
\* transaction is rolled back (by conn.rollback(), or by the server when the
\* connection is lost), the caller gets 500 import_failed
importFail ==
  /\ impResp' = Append(impResp, impError(imp.job, imp.call, "import_failed", Len(imp.tx)))
  /\ imp' = ImpIdle
  /\ clienti' = clienti

\* lines 511-513: pool.getConnection(), conn.beginTransaction()
ImportConnect ==
  /\ imp.pc = "connect"
  /\ \E ok \in BOOLEAN :
       IF ok
       THEN /\ imp' = [imp EXCEPT !.pc = "loop"]
            /\ UNCHANGED <<clienti, impResp>>
       ELSE importFail
  /\ impCount' = impCount
  /\ UNCHANGED notImpVars

\* lines 514-526, one iteration: a row without a name is skipped, any other
\* is inserted in the open transaction
ImportRow ==
  /\ imp.pc = "loop"
  /\ imp.k <= Len(imp.arr)
  /\ LET row == clientiRow(imp.arr[imp.k], imp.call)
     IN  IF row.name = <<>>
         THEN /\ imp' = [imp EXCEPT !.k = @ + 1]
              /\ UNCHANGED <<clienti, impResp>>
         ELSE \E ok \in BOOLEAN :
                IF ok
                THEN /\ imp' = [imp EXCEPT !.k = @ + 1, !.inserted = @ + 1,
                                           !.tx = Append(@, row)]
                     /\ UNCHANGED <<clienti, impResp>>
                ELSE importFail
  /\ impCount' = impCount
  /\ UNCHANGED notImpVars

\* a commit that leaves out the rows an earlier import already put in the
\* table: the import would be idempotent
ImportCommitOnce ==
  /\ imp.pc = "loop"
  /\ imp.k > Len(imp.arr)
  /\ clienti' = IF \E i \in 1..Len(impResp) : impResp[i].kind = "ok" /\ impResp[i].snapshot
                THEN clienti ELSE clienti \o imp.tx
  /\ impResp' = Append(impResp, impOk(imp.job, imp.call, imp.inserted,
                                      Len(imp.arr), imp.snapshot))
  /\ imp' = ImpIdle
  /\ impCount' = impCount
  /\ UNCHANGED notImpVars

\* lines 527 and 534: conn.commit(), res.json({ inserted, total })
ImportCommit ==
  /\ imp.pc = "loop"
  /\ imp.k > Len(imp.arr)
  /\ \E ok \in BOOLEAN :
       IF ok
       THEN /\ clienti' = clienti \o imp.tx
            /\ impResp' = Append(impResp, impOk(imp.job, imp.call, imp.inserted,
                                                Len(imp.arr), imp.snapshot))
            /\ imp' = ImpIdle
       ELSE importFail
  /\ impCount' = impCount
  /\ UNCHANGED notImpVars


\* ------------------------------------------------------------------------
\* httpGet: axios.get with retry and backoff
\* ------------------------------------------------------------------------
\* what one axios.get can end with: a 2xx response (axios resolves), a
\* response with another status (axios rejects with e.response.status), or no
\* response at all (a network error: e.response is undefined), written 0
HttpOutcomes == {200, 0, 404, 429, 500, 599, 600}

isSuccess(code) == code >= 200 /\ code < 300

\* code === 429 || (code >= 500 && code < 600), code = e?.response?.status || 0
isRetryable(code) == code = 429 \/ (code >= 500 /\ code < 600)

\* the attempt after which httpGet gives up (attempt < 5 retries)
httpMaxAttempts == 5

\* shouldRetry with <= for <: a sixth attempt
shouldRetryOffByOne(code, attempt) == isRetryable(code) /\ attempt <= httpMaxAttempts

\* the test of line 129
shouldRetry(code, attempt) == isRetryable(code) /\ attempt < httpMaxAttempts

\* Math.min(2000 * attempt, 8000)
backoffMs(attempt) == Min(2000 * attempt, 8000)

HttpIdle == [pc |-> "idle", attempt |-> 0, codes |-> <<>>, waits |-> <<>>]

\* a caller calls httpGet(url, opts): attempt = 1
HttpCall ==
  /\ http.pc = "idle"
  /\ http' = [http EXCEPT !.pc = "get", !.attempt = 1]
  /\ UNCHANGED notHttpVars

\* lines 127-134: axios.get settles; httpGet returns the response, sleeps
\* before a retry, or rethrows
HttpSettle ==
  /\ http.pc = "get"
  /\ \E code \in HttpOutcomes :
       http' = [http EXCEPT
                  !.codes = Append(@, code),
                  !.pc = IF isSuccess(code) THEN "returned"
                         ELSE IF shouldRetry(code, http.attempt) THEN "sleep"
                         ELSE "thrown",
                  !.waits = IF ~isSuccess(code) /\ shouldRetry(code, http.attempt)
                            THEN Append(@, backoffMs(http.attempt)) ELSE @]
  /\ UNCHANGED notHttpVars

\* lines 131-132: the sleep is over, httpGet(url, opts, attempt + 1)
HttpRetry ==
  /\ http.pc = "sleep"
  /\ http' = [http EXCEPT !.pc = "get", !.attempt = @ + 1]
  /\ UNCHANGED notHttpVars

\* ------------------------------------------------------------------------
\* googleSearchAndDetails: the paginated text search and the detail lookups
\* ------------------------------------------------------------------------
\* how many pages the provider serves at most
MaxPages == 3

\* how many results a page can hold
PageSizes == 0..2

\* the limit of the call: small ones the results reach, and the default
Limits == {1, 3, 50}

\* sleep(1500): the warm-up of a next_page_token
warmupMs == 1500

SearchIdle == [pc |-> "idle"]

\* the results of page n when it holds size items: place ids in provider order
pageResults(n, size) == [i \in 1..size |-> <<n, i>>]

\* the test of the do-while without the limit: pages are fetched as long as
\* the provider hands out tokens
continuePagingIgnoresLimit(nextToken, fetched, limit) == nextToken # NULL

\* the test of the do-while: nextToken && fetched < limit
continuePaging(nextToken, fetched, limit) == nextToken # NULL /\ fetched < limit

\* lines 138-144: without a key the call returns [] at once; with one it
\* starts with out = [], nextToken = null, fetched = 0
SearchCall ==
  /\ gs.pc = "idle"
  /\ \E limit \in Limits, key \in {"", "k1"} :
       gs' = [pc |-> IF key = "" THEN "returned" ELSE "page",
              limit |-> limit, nextToken |-> NULL, fetched |-> 0, out |-> <<>>,
              results |-> <<>>, token |-> NULL, pages |-> 0, log |-> <<>>]
  /\ UNCHANGED notSearchVars

\* lines 146-148: the text search with pagetoken = nextToken; httpGet throws,
\* or the provider answers with a page of results and maybe a next_page_token
SearchPage ==
  /\ gs.pc = "page"
  /\ LET request == [ev |-> "page", token |-> gs.nextToken, fetched |-> gs.fetched]
     IN  \/ gs' = [gs EXCEPT !.pc = "thrown", !.pages = @ + 1, !.log = Append(@, request)]
         \/ \E size \in PageSizes, more \in BOOLEAN :
              LET n == gs.pages + 1
                  token == IF more /\ n < MaxPages THEN Some(n) ELSE NULL
                  items == pageResults(n, size)
              IN  gs' = [gs EXCEPT !.pc = "items", !.pages = n, !.results = items,
                                   !.token = token,
                                   !.log = @ \o <<request, [ev |-> "response", token |-> token,
                                                            items |-> items]>>]
  /\ UNCHANGED notSearchVars

\* lines 149-171, one iteration that reaches the detail lookup: httpGet
\* throws, or the record is pushed and fetched incremented
SearchDetail ==
  /\ gs.pc = "items"
  /\ gs.results # <<>>
  /\ gs.fetched < gs.limit
  /\ LET lookup == [ev |-> "detail", id |-> Head(gs.results)]
     IN  \/ gs' = [gs EXCEPT !.pc = "thrown", !.log = Append(@, lookup)]
         \/ gs' = [gs EXCEPT !.out = Append(@, Head(gs.results)),
                              !.fetched = @ + 1,
                              !.results = Tail(@),
                              !.log = Append(@, lookup)]
  /\ UNCHANGED notSearchVars

\* lines 172-174 after the for loop ended (no result left, or a break on
\* fetched >= limit): nextToken is taken from the page; with a token the call
\* sleeps, without one the do-while ends and out is returned
SearchPageEnd ==
  /\ gs.pc = "items"
  /\ gs.results = <<>> \/ gs.fetched >= gs.limit
  /\ gs' = [gs EXCEPT !.nextToken = gs.token,
                      !.pc = IF gs.token # NULL THEN "warmup" ELSE "returned",
                      !.log = IF gs.token # NULL
                              THEN Append(@, [ev |-> "sleep", ms |-> warmupMs]) ELSE @]
  /\ UNCHANGED notSearchVars

\* line 174 after the sleep: another page, or return out
SearchWarmup ==
  /\ gs.pc = "warmup"
  /\ gs' = [gs EXCEPT !.pc = IF continuePaging(gs.nextToken, gs.fetched, gs.limit)
                             THEN "page" ELSE "returned"]
  /\ UNCHANGED notSearchVars

\* ------------------------------------------------------------------------
\* dedupPlaces, loop by loop
\* ------------------------------------------------------------------------
\* how many places the argument of dedupPlaces holds at most
MaxDedup == 3

DedupIdle == [pc |-> "idle"]

\* dedupPlaces(arr) is called: byKey and result are empty
DedupCall(Inputs) ==
  /\ dd.pc = "idle"
  /\ \E arr \in Inputs : dd' = [pc |-> "exact", arr |-> arr]
  /\ UNCHANGED notDedupVars

\* lines 254-273: the first loop fills result
DedupExact ==
  /\ dd.pc = "exact"
  /\ dd' = [pc |-> "fuzzy", arr |-> dd.arr, result |-> exactPass(dd.arr, <<>>, <<>>)]
  /\ UNCHANGED notDedupVars

\* lines 275-286: the second loop fills final, which is returned
DedupFuzzy ==
  /\ dd.pc = "fuzzy"
  /\ dd' = [pc |-> "returned", arr |-> dd.arr, result |-> dd.result,
            final |-> fuzzyPass(dd.result, <<>>)]
  /\ UNCHANGED notDedupVars

\* the caller passes the returned array to dedupPlaces once more
DedupAgain ==
  /\ dd.pc = "returned"
  /\ dd' = [pc |-> "again", arr |-> dd.arr, result |-> dd.result, final |-> dd.final,
            again |-> dedupPlaces(dd.final)]
  /\ UNCHANGED notDedupVars

\* ------------------------------------------------------------------------
\* jaroWinkler, called on two names and then on the same names swapped
\* ------------------------------------------------------------------------
\* how long the names given to jaroWinkler are at most
MaxNameLen == 2

SimIdle == [pc |-> "idle"]

\* jaroWinkler(a, b) is called and returns
SimilarityCall(Names) ==
  /\ sim.pc = "idle"
  /\ \E a \in Names, b \in Names :
       sim' = [pc |-> "returned", a |-> a, b |-> b, value |-> jaroWinkler(a, b)]
  /\ UNCHANGED notSimVars

\* jaroWinkler(b, a) is called and returns
SimilaritySwapped ==
  /\ sim.pc = "returned"
  /\ sim' = [pc |-> "swapped", a |-> sim.a, b |-> sim.b, value |-> sim.value,
             swapped |-> jaroWinkler(sim.b, sim.a)]
  /\ UNCHANGED notSimVars

\* ------------------------------------------------------------------------
\* The snapshot codec: what the worker writes (lines 374-377) and what the
\* readers of the snapshot parse (lines 474, 509, 554)
\* ------------------------------------------------------------------------
CodecIdle == [pc |-> "idle"]

\* line 374: the worker deduplicates what the search returned
CodecCall(Results) ==
  /\ codec.pc = "idle"
  /\ \E arr \in Results : codec' = [pc |-> "unique", all |-> arr, unique |-> dedupPlaces(arr)]
  /\ UNCHANGED notCodecVars

\* line 377: csv = placesToCsv(unique)
CodecEncode ==
  /\ codec.pc = "unique"
  /\ codec' = [pc |-> "csv", all |-> codec.all, unique |-> codec.unique,
               csv |-> placesToCsv(codec.unique)]
  /\ UNCHANGED notCodecVars

\* lines 474, 509, 554: arr = parseCsv(csv)
CodecDecode ==
  /\ codec.pc = "csv"
  /\ codec' = [pc |-> "parsed", all |-> codec.all, unique |-> codec.unique,
               csv |-> codec.csv, arr |-> parseCsv(codec.csv)]
  /\ UNCHANGED notCodecVars

\* ------------------------------------------------------------------------
\* GET /v1/jobs/:id/count
\* ------------------------------------------------------------------------
\* String.prototype.split(/\r?\n/): the pieces between line feeds, without
\* the carriage return that precedes a line feed
splitLines(text) ==
  LET pieces == Split(text, "\n")
  IN  [i \in 1..Len(pieces) |->
         IF i < Len(pieces) /\ pieces[i] # <<>> /\ pieces[i][Len(pieces[i])] = "\r"
         THEN SubSeq(pieces[i], 1, Len(pieces[i]) - 1)
         ELSE pieces[i]]

\* lines 434-435: the lines that are not blank, minus the header, at least 0
countTotal(csv) ==
  LET lines == SelectSeq(splitLines(csv), LAMBDA l : trim(l) # <<>>)
  IN  Max(0, Len(lines) - 1)

CountIdle == [status |-> 0]

\* the handler of lines 427-440: 404 without a row, 500 when the query
\* throws, else the total; csv is what the SELECT read
GetJobRowCount(j) ==
  /\ \E ok \in BOOLEAN :
       cnt' = IF ~ok THEN [status |-> 500, job |-> j, error |-> "count_failed"]
              ELSE IF jobs[j] = NoRow THEN [status |-> 404, job |-> j, error |-> "not_found"]
              ELSE LET csv == IF jobs[j].results_csv = NULL THEN <<>>
                              ELSE jobs[j].results_csv[1]
                   IN  [status |-> 200, job |-> j, total |-> countTotal(csv), csv |-> csv]
  /\ UNCHANGED notCountVars

\* ------------------------------------------------------------------------
\* GET, PUT and DELETE /api/clienti/:id with the cache of cache.js
\* ------------------------------------------------------------------------
\* the GET requests that can be in flight together
GetIds == {"g1", "g2"}

\* the row before the write, and the row after the PUT
OldRow == [id |-> 1, name |-> "old"]
NewRow == [id |-> 1, name |-> "new"]

GetIdle == [pc |-> "idle"]

CacheInit ==
  /\ dbRow = Some(OldRow)
  /\ redis = NULL
  /\ wr = [pc |-> "idle"]
  /\ inval = [pc |-> "none"]
  /\ gets = [g \in GetIds |-> GetIdle]

\* a GET arrives (again); after says whether the PUT or DELETE had responded
GetCliente(g) ==
  /\ gets[g].pc \in {"idle", "done"}
  /\ gets' = [gets EXCEPT ![g] = [pc |-> "cacheGet", after |-> wr.pc = "responded"]]
  /\ UNCHANGED <<dbRow, redis, wr, inval>>
  /\ UNCHANGED notCacheVars

\* clienti.js lines 206-207 with cacheGet: a hit is answered from the cache;
\* no entry, or no open connection to redis, goes on to the SELECT
GetCacheGet(g) ==
  /\ gets[g].pc = "cacheGet"
  /\ \E open \in BOOLEAN :
       gets' = [gets EXCEPT ![g] =
                  IF open /\ redis # NULL
                  THEN [pc |-> "done", after |-> gets[g].after, status |-> 200,
                        xcache |-> "HIT", row |-> redis[1]]
                  ELSE [pc |-> "select", after |-> gets[g].after]]
  /\ UNCHANGED <<dbRow, redis, wr, inval>>
  /\ UNCHANGED notCacheVars

\* lines 208-209: the SELECT; no row is the 404, a failure the 500
GetSelect(g) ==
  /\ gets[g].pc = "select"
  /\ \E ok \in BOOLEAN :
       gets' = [gets EXCEPT ![g] =
                  IF ~ok THEN [pc |-> "done", after |-> gets[g].after, status |-> 500]
                  ELSE IF dbRow = NULL
                  THEN [pc |-> "done", after |-> gets[g].after, status |-> 404]
                  ELSE [pc |-> "cacheSet", after |-> gets[g].after, row |-> dbRow[1]]]
  /\ UNCHANGED <<dbRow, redis, wr, inval>>
  /\ UNCHANGED notCacheVars

\* lines 210-212: cacheSet stores the row that was read (or returns false),
\* and the row is the answer
GetCacheSet(g) ==
  /\ gets[g].pc = "cacheSet"
  /\ \E stored \in BOOLEAN : redis' = IF stored THEN Some(gets[g].row) ELSE redis
  /\ gets' = [gets EXCEPT ![g] = [pc |-> "done", after |-> gets[g].after, status |-> 200,
                                  xcache |-> "MISS", row |-> gets[g].row]]
  /\ UNCHANGED <<dbRow, wr, inval>>
  /\ UNCHANGED notCacheVars

\* the entry reaches the end of its 300 seconds
CacheExpire ==
  /\ redis # NULL
  /\ redis' = NULL
  /\ UNCHANGED <<dbRow, wr, inval, gets>>
  /\ UNCHANGED notCacheVars

\* lines 288-290 and 323-324: the UPDATE or the DELETE; a failure is the 500
WriteCliente ==
  /\ wr.pc = "idle"
  /\ \E op \in {"PUT", "DELETE"}, ok \in BOOLEAN :
       IF ok
       THEN /\ dbRow' = IF op = "PUT" THEN Some(NewRow) ELSE NULL
            /\ wr' = [pc |-> "written", op |-> op]
       ELSE /\ dbRow' = dbRow
            /\ wr' = [pc |-> "failed", op |-> op]
  /\ UNCHANGED <<redis, inval, gets>>
  /\ UNCHANGED notCacheVars

\* lines 291-298 and 326-332: cacheDelPrefix is called and not awaited, and
\* the response is sent
WriteRespond ==
  /\ wr.pc = "written"
  /\ wr' = [wr EXCEPT !.pc = "responded"]
  /\ inval' = [pc |-> "scan"]
  /\ UNCHANGED <<dbRow, redis, gets>>
  /\ UNCHANGED notCacheVars

\* cache.js lines 52-59: without an open connection cacheDelPrefix returns 0,
\* a failure of the scan is dropped by the .catch of the caller, else the
\* scan finds the keys that match at this moment
InvalidateScan ==
  /\ inval.pc = "scan"
  /\ \E open \in BOOLEAN :
       inval' = IF ~open THEN [pc |-> "dropped"]
                ELSE IF redis = NULL THEN [pc |-> "done"]
                ELSE [pc |-> "del"]
  /\ UNCHANGED <<dbRow, redis, wr, gets>>
  /\ UNCHANGED notCacheVars

\* cache.js line 61: c.del(keys) removes the entry, whatever it holds now, or
\* fails and is dropped
InvalidateDel ==
  /\ inval.pc = "del"
  /\ \E ok \in BOOLEAN :
       /\ redis' = IF ok THEN NULL ELSE redis
       /\ inval' = [pc |-> IF ok THEN "done" ELSE "dropped"]
  /\ UNCHANGED <<dbRow, wr, gets>>
  /\ UNCHANGED notCacheVars

\* ------------------------------------------------------------------------
\* GET /v1/jobs/:id/places and GET /v1/export/:id
\* ------------------------------------------------------------------------
ReadIdle == [status |-> 0]

\* what the SELECT of results_csv gives the handler: row.results_csv || ''
snapshotText(row) == IF row.results_csv = NULL THEN <<>> ELSE row.results_csv[1]

\* items.slice(offset, offset + limit)
slice(items, offset, limit) == SubSeq(items, offset + 1, Min(Len(items), offset + limit))

\* lines 465-492: the decoded rows, cut to the page asked for; limit and
\* offset are the query parameters after lines 468-469
PreviewJobRecords(j) ==
  /\ \E ok \in BOOLEAN, limit \in {1, 20}, offset \in {0, 1} :
       rd' = IF ~ok THEN [status |-> 500, op |-> "preview", job |-> j, error |-> "preview_failed"]
             ELSE IF jobs[j] = NoRow
             THEN [status |-> 404, op |-> "preview", job |-> j, error |-> "not_found"]
             ELSE LET arr == parseCsv(snapshotText(jobs[j]))
                  IN  [status |-> 200, op |-> "preview", job |-> j, limit |-> limit,
                       offset |-> offset, rows |-> Len(arr),
                       items |-> slice([i \in 1..Len(arr) |-> field(arr[i], "name")],
                                       offset, limit)]
  /\ UNCHANGED notReadVars

\* lines 542-577: the text of the snapshot as it is stored (format=csv), or
\* its decoded rows as one JSON array, or one JSON line per row
ExportJob(j) ==
  /\ \E ok \in BOOLEAN, format \in {"csv", "json", "jsonl"} :
       rd' = IF ~ok THEN [status |-> 500, op |-> "export", job |-> j, error |-> "export_failed"]
             ELSE IF jobs[j] = NoRow
             THEN [status |-> 404, op |-> "export", job |-> j, error |-> "not_found"]
             ELSE LET csv == snapshotText(jobs[j])
                  IN  IF format = "csv"
                      THEN [status |-> 200, op |-> "export", job |-> j, format |-> format,
                            text |-> csv]
                      ELSE [status |-> 200, op |-> "export", job |-> j, format |-> format,
                            rows |-> Len(parseCsv(csv))]
  /\ UNCHANGED notReadVars

\* ------------------------------------------------------------------------
\* The worker with its search call run page by page, against a provider that
\* is free to hand out a next_page_token with every page
\* ------------------------------------------------------------------------
PagingIdle == [pc |-> "idle"]

\* the token of a page: every page of the provider may carry the same one
PageToken == Some("t")

\* limit = 50 unless the request names one (line 138)
searchLimit(p) == IF p.limit # NULL THEN p.limit[1] ELSE 50

\* line 373: the worker calls googleSearchAndDetails(parsed, apiKey); the key
\* is set (line 342), so out = [], nextToken = null, fetched = 0
RunSearchCall(j) ==
  /\ pc[j] = "search"
  /\ pg.pc = "idle"
  /\ pg' = [pc |-> "page", job |-> j, limit |-> searchLimit(parsed[j][1]),
            nextToken |-> NULL, fetched |-> 0, results |-> 0, token |-> NULL]
  /\ UNCHANGED jobVars
  /\ UNCHANGED notPagingVars

\* lines 146-148: the text search; httpGet throws, or the provider answers
\* with size results and maybe a next_page_token
PagingPage ==
  /\ pg.pc = "page"
  /\ \/ pg' = [pg EXCEPT !.pc = "thrown"]
     \/ \E size \in PageSizes, more \in BOOLEAN :
          pg' = [pg EXCEPT !.pc = "items", !.results = size,
                           !.token = IF more THEN PageToken ELSE NULL]
  /\ UNCHANGED jobVars
  /\ UNCHANGED notPagingVars

\* lines 149-171, one iteration that reaches the detail lookup
PagingDetail ==
  /\ pg.pc = "items"
  /\ pg.results > 0
  /\ pg.fetched < pg.limit
  /\ \/ pg' = [pg EXCEPT !.pc = "thrown"]
     \/ pg' = [pg EXCEPT !.fetched = @ + 1, !.results = @ - 1]
  /\ UNCHANGED jobVars
  /\ UNCHANGED notPagingVars

\* lines 172-175 after the for loop: nextToken is taken from the page, the
\* call sleeps when there is one, and the do-while goes on or out is returned
PagingPageEnd ==
  /\ pg.pc = "items"
  /\ pg.results = 0 \/ pg.fetched >= pg.limit
  /\ pg' = [pg EXCEPT !.nextToken = pg.token, !.results = 0,
                      !.pc = IF continuePaging(pg.token, pg.fetched, pg.limit)
                             THEN "page" ELSE "returned"]
  /\ UNCHANGED jobVars
  /\ UNCHANGED notPagingVars

\* line 373: the call returned its pg.fetched records, which go into all, or
\* it threw, which goes to the catch of line 401
RunSearchReturn(j, Results) ==
  /\ pc[j] = "search"
  /\ pg.pc \in {"returned", "thrown"}
  /\ pg.job = j
  /\ IF pg.pc = "returned"
     THEN \E places \in Results :
            /\ Len(places) = pg.fetched
            /\ all' = [all EXCEPT ![j] = places]
            /\ pc' = [pc EXCEPT ![j] = "progress"]
            /\ err' = err
     ELSE \E message \in ProviderErrors :
            /\ toCatch(j, message)
            /\ all' = all
  /\ pg' = PagingIdle
  /\ UNCHANGED <<jobs, resp, parsed, hist>>
  /\ UNCHANGED notPagingVars

\* ------------------------------------------------------------------------
\* The partner router (src/unnamed/part_000), mounted at /api/partner
\* ------------------------------------------------------------------------
\* how many partners the table holds at most
MaxPartners == 2

\* Number(req.params.id) of a path segment that is not a number
NaN == -1

\* the routes in the order router.get/post/put/delete declare them; a path
\* is its segment after the mount point, "" for the root
partnerRoutes ==
  << [method |-> "GET", pattern |-> "", handler |-> "list"],
     [method |-> "GET", pattern |-> "stats", handler |-> "stats"],
     [method |-> "GET", pattern |-> "assign-share", handler |-> "assignShare"],
     [method |-> "GET", pattern |-> ":id", handler |-> "getById"],
     [method |-> "POST", pattern |-> "", handler |-> "create"],
     [method |-> "PUT", pattern |-> ":id", handler |-> "update"],
     [method |-> "DELETE", pattern |-> ":id", handler |-> "delete"],
     [method |-> "GET", pattern |-> "export", handler |-> "export"] >>

\* a route of Express matches: the method, and the literal segment, or any
\* non-empty segment for the parameter :id
routeMatches(route, method, path) ==
  /\ route.method = method
  /\ IF route.pattern = ":id" THEN path # "" ELSE route.pattern = path

\* the handler of the first route that matches, in declaration order (no
\* handler of this router calls next()); "none" when no route matches
dispatch(routes, method, path) ==
  LET hits == {i \in 1..Len(routes) : routeMatches(routes[i], method, path)}
  IN  IF hits = {} THEN "none"
      ELSE routes[CHOOSE i \in hits : \A h \in hits : i <= h].handler

\* Number(req.params.id)
toNumber(segment) ==
  IF \E i \in 1..(MaxPartners + 1) : ToString(i) = segment
  THEN CHOOSE i \in 1..(MaxPartners + 1) : ToString(i) = segment
  ELSE NaN

PartnerIdle == [pc |-> "idle"]

\* a request arrives and the router picks its handler
PartnerRequest ==
  /\ preq.pc \in {"idle", "responded"}
  /\ \E method \in {"GET", "POST", "PUT", "DELETE"},
        path \in {"", "stats", "assign-share", "export"}
                   \cup {ToString(i) : i \in 1..(MaxPartners + 1)} :
       preq' = [pc |-> "handling", method |-> method, path |-> path,
              handler |-> dispatch(partnerRoutes, method, path)]
  /\ partners' = partners
  /\ UNCHANGED notPartnerVars

\* the response of a handler that changes nothing
partnerAnswer(status, body, rows) ==
  /\ preq' = [preq EXCEPT !.pc = "responded",
                      !.response = [status |-> status, body |-> body, rows |-> rows]]
  /\ partners' = partners

\* the handler runs to its response.  ok: the database answers; valid: the
\* body passes the handler's validation.  A SELECT ... WHERE id = NaN finds
\* no row or is refused by the server.
PartnerHandle ==
  /\ preq.pc = "handling"
  /\ \E ok \in BOOLEAN, valid \in BOOLEAN :
       LET id == toNumber(preq.path)
           n == Cardinality(partners)
       IN  CASE preq.handler = "none" -> partnerAnswer(404, "no_route", 0)
             [] preq.handler = "list" ->
                  IF ok THEN partnerAnswer(200, "list", n)
                  ELSE partnerAnswer(500, "list_failed", 0)
             [] preq.handler = "stats" ->
                  IF ok THEN partnerAnswer(200, "stats", n)
                  ELSE partnerAnswer(500, "stats_failed", 0)
             [] preq.handler = "assignShare" ->
                  IF ok THEN partnerAnswer(200, "assign_share", n)
                  ELSE partnerAnswer(500, "assign_share_failed", 0)
             [] preq.handler = "getById" ->
                  IF ~ok THEN partnerAnswer(500, "get_failed", 0)
                  ELSE IF id \in partners THEN partnerAnswer(200, "partner", 1)
                  ELSE partnerAnswer(404, "not_found", 0)
             [] preq.handler = "create" ->
                  IF ~ok THEN partnerAnswer(500, "create_failed", 0)
                  ELSE IF ~valid THEN partnerAnswer(400, "name_required", 0)
                  ELSE IF n >= MaxPartners THEN partnerAnswer(500, "create_failed", 0)
                  ELSE /\ partners' = partners
                            \cup {CHOOSE i \in 1..MaxPartners : i \notin partners
                                     /\ \A k \in 1..MaxPartners : k \notin partners => i <= k}
                       /\ preq' = [preq EXCEPT !.pc = "responded",
                                 !.response = [status |-> 201, body |-> "partner", rows |-> 1]]
             [] preq.handler = "update" ->
                  IF ~ok THEN partnerAnswer(500, "update_failed", 0)
                  ELSE IF id = NaN THEN partnerAnswer(400, "invalid_id", 0)
                  ELSE IF ~valid THEN partnerAnswer(400, "no_fields", 0)
                  ELSE IF id \notin partners THEN partnerAnswer(404, "not_found", 0)
                  ELSE partnerAnswer(200, "partner", 1)
             [] preq.handler = "delete" ->
                  IF ~ok THEN partnerAnswer(500, "delete_failed", 0)
                  ELSE IF id = NaN THEN partnerAnswer(400, "invalid_id", 0)
                  ELSE IF id \notin partners THEN partnerAnswer(404, "not_found", 0)
                  ELSE /\ partners' = partners \ {id}
                       /\ preq' = [preq EXCEPT !.pc = "responded",
                                 !.response = [status |-> 204, body |-> "", rows |-> 0]]
             [] preq.handler = "export" ->
                  IF ok THEN partnerAnswer(200, "csv", 1 + n)
                  ELSE partnerAnswer(500, "export_failed", 0)
  /\ UNCHANGED notPartnerVars

\* ------------------------------------------------------------------------
\* Specifications
\* ------------------------------------------------------------------------
vars ==
  <<jobVars, impVars, httpVars, searchVars, dedupVars, simVars, codecVars, countVars,
    partnerVars, pagingVars, readVars, cacheVars>>

\* provider answers: a place on the meridian of the model
Place(name, address, lat, id) ==
  [name |-> name, address |-> address, phone |-> <<>>, website |-> <<>>,
   rating |-> 0, lat |-> lat, lng |-> 1250000, categories |-> <<<<"bakery">>>>,
   placeIds |-> [google |-> id], source |-> "google"]

ViaUno == <<"v", "1", ",", " ", "Roma">>
ViaDue == <<"v", "2", ",", " ", "Roma">>

PlaceAB1 == Place(<<"a", "b">>, ViaUno, 4190000, "g1")
PlaceAB2 == Place(<<"a", "b">>, ViaDue, 4190009, "g2")
PlaceA1 == Place(<<"a">>, ViaUno, 4190000, "g3")
PlaceA2 == Place(<<"a">>, ViaDue, 4190009, "g4")
PlaceBlank == Place(<<" ">>, <<"v", "3">>, 4190200, "g5")
PlaceQuoted == Place(<<"x", ",", "\"", "\n", "y">>, <<"v", "4", ",", "Rho">>, 4190400, "g6")

JobsInit ==
  /\ jobs = [j \in JobIds |-> NoRow]
  /\ pc = [j \in JobIds |-> "none"]
  /\ resp = [j \in JobIds |-> "none"]
  /\ parsed = [j \in JobIds |-> NULL]
  /\ all = [j \in JobIds |-> <<>>]
  /\ err = [j \in JobIds |-> NULL]
  /\ hist = [j \in JobIds |-> <<>>]

ImpInit ==
  /\ imp = ImpIdle
  /\ clienti = <<>>
  /\ impResp = <<>>
  /\ impCount = 0

\* ---- Spec: two jobs side by side ----
SearchResults == {<<>>, <<PlaceAB1, PlaceAB2>>}

Init == JobsInit /\ ImpInit /\ http = HttpIdle /\ gs = SearchIdle /\ dd = DedupIdle
        /\ sim = SimIdle /\ codec = CodecIdle /\ cnt = CountIdle
        /\ preq = PartnerIdle /\ partners = {}
        /\ pg = PagingIdle
        /\ rd = ReadIdle
        /\ CacheInit

JobStep(j, Reqs, Results) ==
  \/ CreateJob(j, Reqs)
  \/ CreateJobInsert(j)
  \/ CreateJobRespond(j)
  \/ RunStart(j)
  \/ RunSearch(j, Results)
  \/ RunProgress(j)
  \/ RunSnapshot(j)
  \/ RunComplete(j)
  \/ RunCatch(j)

Next == \E j \in JobIds : JobStep(j, Requests, SearchResults)

Spec == Init /\ [][Next]_vars

\* ---- SpecImport: one job, every provider answer of up to MaxPlaces places,
\* and import calls at any moment ----
MaxPlaces == 2

Catalogue == {PlaceAB1, PlaceAB2, PlaceA1, PlaceA2, PlaceBlank, PlaceQuoted}

ImportJobIds == {"j1"}

ImportStep ==
  \/ \E j \in ImportJobIds : ImportRead(j)
  \/ ImportConnect
  \/ ImportRow
  \/ ImportCommit

NextImport ==
  \/ \E j \in ImportJobIds :
       JobStep(j, {Req(1000, Some(10), NULL)}, SeqsUpTo(Catalogue, MaxPlaces))
  \/ ImportStep

SpecImport == Init /\ [][NextImport]_vars

\* ---- SpecHttp: one call of httpGet against every sequence of outcomes ----
NextHttp == HttpCall \/ HttpSettle \/ HttpRetry

SpecHttp == Init /\ [][NextHttp]_vars

\* ---- SpecSearch: one call of googleSearchAndDetails against every provider
\* behaviour of up to MaxPages pages ----
NextSearch == SearchCall \/ SearchPage \/ SearchDetail \/ SearchPageEnd \/ SearchWarmup

SpecSearch == Init /\ [][NextSearch]_vars

\* ---- SpecDedup: dedupPlaces on every sequence of up to MaxDedup places the
\* search can return ----
\* a place with the enrichment fields set
Enriched(p, website, phone, rating) ==
  [p EXCEPT !.website = website, !.phone = phone, !.rating = rating]

\* the same place as PlaceAB1 (same key), returned again with enrichment
PlaceAB1Site ==
  Enriched(Place(<<" ", "A", "B">>, ViaUno, 4190010, "g7"), <<"site7">>, <<>>, 4)
PlaceAB1Phone ==
  Enriched(Place(<<"a", "b">>, ViaUno, 4190000, "g8"), <<"site8">>, <<"tel8">>, 3)
\* same name, 44 m north of PlaceAB1 and 44 m south of PlaceABFar, which are
\* 89 m apart
PlaceABMid == Enriched(Place(<<"a", "b">>, <<"v", "5">>, 4190040, "g9"), <<>>, <<"tel9">>, 5)
PlaceABFar == Enriched(Place(<<"a", "b">>, <<"v", "6">>, 4190080, "g10"), <<"site10">>, <<>>, 2)
\* details without a name, without a location
PlaceNoName == Place(<<>>, ViaUno, 4190000, "g11")
PlaceNoLat == Place(<<"a", "b">>, ViaUno, Undefined, "g12")

DedupCatalogue ==
  {PlaceAB1, PlaceAB1Site, PlaceAB1Phone, PlaceAB2, PlaceABMid, PlaceABFar,
   PlaceA1, PlaceNoName, PlaceNoLat}

NextDedup ==
  \/ DedupCall(SeqsUpTo(DedupCatalogue, MaxDedup))
  \/ DedupExact
  \/ DedupFuzzy
  \/ DedupAgain

SpecDedup == Init /\ [][NextDedup]_vars

\* ---- SpecSim: jaroWinkler on every pair of names of up to MaxNameLen
\* characters ----
NameChars == {"a", "b", "A", " "}

NextSim ==
  \/ SimilarityCall(SeqsUpTo(NameChars, MaxNameLen))
  \/ SimilaritySwapped

SpecSim == Init /\ [][NextSim]_vars

\* ---- SpecCodec: the codec on the deduplicated form of every provider
\* answer of up to MaxPlaces places, with the characters the format reserves ----
\* quotes at both ends of the name, a comma and a quote in the website, line
\* breaks in the phone, a quoted city
PlaceEdgeQuotes ==
  Enriched(Place(<<"\"", "q", "\"">>, <<"v", "7", ",", " ", "\"", "R", "\"", " ">>,
                 4190600, "g13"),
           <<"h", ",", "\"">>, <<"1", "\r", "\n", "2">>, 0)
\* carriage returns and a line feed in the name
PlaceCr == Place(<<"l", "\r", "\n", "m", "\r">>, <<"v", "8", ",", "Rho">>, 4190800, "g14")
\* no category and no city
PlaceBare ==
  [Place(<<"n">>, <<"v", "9">>, 4191000, "g15") EXCEPT !.categories = <<>>]

CodecCatalogue == {PlaceAB1, PlaceBlank, PlaceQuoted, PlaceEdgeQuotes, PlaceCr, PlaceBare}

NextCodec ==
  \/ CodecCall(SeqsUpTo(CodecCatalogue, MaxPlaces))
  \/ CodecEncode
  \/ CodecDecode

SpecCodec == Init /\ [][NextCodec]_vars

\* ---- SpecCount: one job, every provider answer of up to MaxPlaces places,
\* and count calls at any moment ----
NextCount ==
  \/ \E j \in ImportJobIds :
       JobStep(j, {Req(1000, Some(10), NULL)}, SeqsUpTo(CodecCatalogue, MaxPlaces))
  \/ \E j \in ImportJobIds : GetJobRowCount(j)

SpecCount == Init /\ [][NextCount]_vars

\* ---- SpecReaders: one job, and count, preview and export calls and one
\* import call at any moment of its Run ----
ReaderResults == {<<PlaceAB1, PlaceQuoted>>}

NextReaders ==
  \/ \E j \in ImportJobIds : JobStep(j, {Req(1000, Some(10), NULL)}, ReaderResults)
  \/ \E j \in ImportJobIds : GetJobRowCount(j)
  \/ \E j \in ImportJobIds : PreviewJobRecords(j)
  \/ \E j \in ImportJobIds : ExportJob(j)
  \/ ImportStep /\ impCount' <= 1

SpecReaders == Init /\ [][NextReaders]_vars

\* ---- SpecCache: one write of a client and GET requests at any moment ----
NextCache ==
  \/ \E g \in GetIds : GetCliente(g)
  \/ \E g \in GetIds : GetCacheGet(g)
  \/ \E g \in GetIds : GetSelect(g)
  \/ \E g \in GetIds : GetCacheSet(g)
  \/ CacheExpire
  \/ WriteCliente
  \/ WriteRespond
  \/ InvalidateScan
  \/ InvalidateDel

SpecCache == Init /\ [][NextCache]_vars

\* ---- SpecLive: one job whose search runs page by page; every step that is
\* enabled is taken in the end, since every awaited call settles ----
LiveRequests == {Req(1000, Some(1), NULL), Req(1000, Some(MaxPlaces), NULL)}

NextLive ==
  \E j \in ImportJobIds :
    \/ CreateJob(j, LiveRequests)
    \/ CreateJobInsert(j)
    \/ CreateJobRespond(j)
    \/ RunStart(j)
    \/ RunSearchCall(j)
    \/ PagingPage
    \/ PagingDetail
    \/ PagingPageEnd
    \/ RunSearchReturn(j, SeqsUpTo(Catalogue, MaxPlaces))
    \/ RunProgress(j)
    \/ RunSnapshot(j)
    \/ RunComplete(j)
    \/ RunCatch(j)

SpecLive == Init /\ [][NextLive]_vars /\ WF_vars(NextLive)

\* ---- SpecPartner: requests to the partner router, one after the other ----
NextPartner == PartnerRequest \/ PartnerHandle

SpecPartner == Init /\ [][NextPartner]_vars

\* ------------------------------------------------------------------------
\* Properties of the job lifecycle (Spec)
\* ------------------------------------------------------------------------
Last(q) == q[Len(q)]

\* the statuses and the progress values job j has had, one per applied write
statuses(j) == [i \in 1..Len(hist[j]) |-> hist[j][i].row.status]
progresses(j) == [i \in 1..Len(hist[j]) |-> hist[j][i].row.progress]

statusRank(st) ==
  CASE st = "queued" -> 1
    [] st = "running" -> 2
    [] st \in {"completed", "failed"} -> 3

\* hist is the history of the table: the row of a job is the one its last
\* applied write left
HistIsHistory ==
  \A j \in JobIds :
    IF hist[j] = <<>> THEN jobs[j] = NoRow ELSE jobs[j] = Last(hist[j]).row

\* C1: the statuses a job takes over time form a subsequence of queued,
\* running, completed or of queued, running, failed: the first is queued,
\* every change goes to a later stage, running is entered at most once and a
\* completed or failed status is never changed by a later write.
C1_StatusLifecycle ==
  /\ HistIsHistory
  /\ \A j \in JobIds :
       LET st == statuses(j)
       IN  /\ st # <<>> => st[1] = "queued"
           /\ \A i \in 1..(Len(st) - 1) :
                /\ st[i] # st[i + 1] => statusRank(st[i]) < statusRank(st[i + 1])
                /\ st[i] \in {"completed", "failed"} => st[i + 1] = st[i]
           /\ Cardinality({i \in 2..Len(st) : st[i] = "running" /\ st[i - 1] # "running"}) <= 1

\* two jobs side by side, one ended completed and the other failed after
\* running
C1_Witness ==
  \E j, k \in JobIds :
    /\ j # k
    /\ Len(hist[j]) >= 3 /\ jobs[j].status = "completed"
    /\ Len(hist[k]) >= 3 /\ jobs[k].status = "failed" /\ statuses(k)[2] = "running"

\* C2: the snapshot of a job is written at most once, only while the status
\* is running (before and after the write), and when the job goes on to
\* completed that is the very next write of the job.
C2_SnapshotOnce ==
  \A j \in JobIds :
    LET h == hist[j]
        csv == {i \in 1..Len(h) : h[i].op = "csv"}
    IN  /\ Cardinality(csv) <= 1
        /\ \A i \in 1..Len(h) :
             (i > 1 /\ h[i].row.results_csv # h[i - 1].row.results_csv) => i \in csv
        /\ \A i \in csv :
             /\ i > 1 /\ h[i - 1].row.status = "running" /\ h[i].row.status = "running"
             /\ h[i].row.results_csv # NULL
             /\ \A k \in (i + 1)..Len(h) : h[k].row.status = "completed" => k = i + 1

C2_Witness ==
  \E j \in JobIds :
    /\ Len(hist[j]) = 5
    /\ hist[j][4].op = "csv" /\ hist[j][5].op = "completed"
    /\ jobs[j].results_csv # NULL

\* C3: the progress of a job is an integer in 0..100 and no write of the job
\* lowers it.
C3_ProgressMonotonic ==
  \A j \in JobIds :
    LET pr == progresses(j)
    IN  /\ \A i \in 1..Len(pr) : pr[i] \in 0..100
        /\ \A i \in 1..(Len(pr) - 1) : pr[i] <= pr[i + 1]

\* a job that failed after its progress had been raised
C3_Witness ==
  \E j \in JobIds :
    /\ Len(hist[j]) >= 4
    /\ jobs[j].status = "failed" /\ jobs[j].progress = 100 /\ progresses(j)[1] = 0

workerPcs == {"scheduled", "search", "progress", "csv", "complete", "catch", "done", "unhandled"}

\* the row CreateJob must have persisted for the request it validated
isQueuedRow(row, req) ==
  /\ row.status = "queued" /\ row.progress = 0 /\ row.error = NULL
  /\ row.results_csv = NULL
  /\ row.params = req
  /\ req.radius_m \in 50..50000
  /\ (req.limit # NULL => req.limit[1] \in 1..200)

\* what holds of a request that ended with an error / with a job id
rejectedCleanly(j) ==
  /\ jobs[j] = NoRow /\ hist[j] = <<>>
  /\ pc[j] = "rejected"
acceptedWithJob(j) ==
  /\ hist[j] # <<>> /\ hist[j][1].op = "insert"
  /\ isQueuedRow(hist[j][1].row, parsed[j][1])
  /\ \A i \in 2..Len(hist[j]) : hist[j][i].op # "insert"
  /\ pc[j] \in workerPcs

\* C4 as stated: a request ends either with the validation error or the
\* missing-credential error, and then no row, no job id and no worker exists,
\* or with a job id, and then the queued row was inserted first.
C4_TwoOutcomes ==
  \A j \in JobIds :
    /\ resp[j] \in {"none", "invalid_input", "missing_google_places_key", "jobId"}
    /\ resp[j] \in {"invalid_input", "missing_google_places_key"} => rejectedCleanly(j)
    /\ resp[j] = "jobId" => acceptedWithJob(j)
    /\ pc[j] \in workerPcs => resp[j] = "jobId"

\* C4 as amended: the persistence error job_create_failed is a third way for
\* the request to fail; every failure leaves no row, no job id and no
\* worker, and a job id is returned only after the queued row with the
\* validated params was inserted and before the worker has written anything.
C4_ThreeOutcomes ==
  \A j \in JobIds :
    /\ resp[j] \in {"none", "invalid_input", "missing_google_places_key",
                    "job_create_failed", "jobId"}
    /\ resp[j] \in {"invalid_input", "missing_google_places_key", "job_create_failed"}
         => rejectedCleanly(j)
    /\ resp[j] = "jobId" => acceptedWithJob(j)
    /\ pc[j] \in workerPcs => resp[j] = "jobId"
    /\ pc[j] = "scheduled" => Len(hist[j]) = 1

\* one request was refused for its input, the other got its job id and the
\* worker has not written yet
C4_Witness ==
  \E j, k \in JobIds :
    /\ resp[j] = "invalid_input"
    /\ resp[k] = "jobId" /\ pc[k] = "scheduled" /\ jobs[k].status = "queued"

\* the worker of job j is over: the callback returned or its promise rejected
workerEnded(j) == pc[j] \in {"done", "unhandled"}

\* the search of job j threw (the caught message is the provider's)
providerFailed(j) == err[j] # NULL /\ err[j][1] \in ProviderErrors

\* String(e?.message || e) of an Error: its message, "Error" when it has none
expectedErrorText(j) == IF err[j][1] = "" THEN "Error" ELSE err[j][1]

C6_ErrorOnlyWhenFailed ==
  \A j \in JobIds :
    \A i \in 1..Len(hist[j]) :
      hist[j][i].row.error # NULL => hist[j][i].row.status = "failed"

\* a failed job with its error beside a completed job without one
C6_Witness ==
  \E j, k \in JobIds :
    /\ jobs[j] # NoRow /\ jobs[j].status = "failed" /\ jobs[j].error # NULL
    /\ jobs[k] # NoRow /\ jobs[k].status = "completed" /\ jobs[k].error = NULL

\* ------------------------------------------------------------------------
\* Properties of the snapshot and of the import (SpecImport)
\* ------------------------------------------------------------------------
\* every write of job j succeeded and its worker returned
ranClean(j) ==
  /\ pc[j] = "done"
  /\ [i \in 1..Len(hist[j]) |-> hist[j][i].op]
       = <<"insert", "running", "progress", "csv", "completed">>

\* the provider returned exactly two complete places with the same name
\* within 50 m of each other
twoSameNameNearby(places) ==
  /\ Len(places) = 2
  /\ isComplete(places[1]) /\ isComplete(places[2])
  /\ places[1].name = places[2].name
  /\ Abs(places[1].lat - places[2].lat) * MmPerUnitLat <= 50 * 1000
  /\ places[1].lng = places[2].lng

\* the data rows of a stored snapshot
snapshotRows(j) == parseCsv(jobs[j].results_csv[1])

\* C7: after a search that succeeded and writes that all succeeded the job is
\* completed with progress 100 and its snapshot is the encoding of the
\* deduplicated search output, one data row per record in order; and two
\* same-named places within 50 m of each other leave exactly one row.
C7_SnapshotIsDedupedOutput ==
  \A j \in JobIds :
    ranClean(j) =>
      LET unique == dedupPlaces(all[j])
      IN  /\ jobs[j].status = "completed" /\ jobs[j].progress = 100
          /\ jobs[j].results_csv = Some(placesToCsv(unique))
          /\ Len(snapshotRows(j)) = Len(unique)
          /\ \A i \in 1..Len(unique) : field(snapshotRows(j)[i], "name") = unique[i].name
          /\ twoSameNameNearby(all[j]) => Len(snapshotRows(j)) = 1

\* the rows of the clienti table that import call c committed, in order
rowsOfCall(c) == SelectSeq(clienti, LAMBDA r : r.call = c)

\* the INSERTs an import of the places must make: one per place whose name is
\* not blank, in order, with the fixed status
qualifying(places) == SelectSeq(places, LAMBDA p : trim(p.name) # <<>>)
expectedInsert(p, c) ==
  [name |-> trim(p.name),
   city |-> IF guessCity(p.address) = NULL THEN <<>> ELSE guessCity(p.address)[1],
   category |-> IF p.categories = <<>> THEN <<>> ELSE p.categories[1],
   site |-> p.website, phone_1 |-> p.phone,
   status |-> <<"Non", " ", "contattato">>, call |-> c]
expectedInserts(places, c) ==
  [i \in 1..Len(qualifying(places)) |-> expectedInsert(qualifying(places)[i], c)]

\* the places of the snapshot that import response r read
placesRead(r) == IF r.snapshot THEN dedupPlaces(all[r.job]) ELSE <<>>

\* C8: an import call is all or nothing on the clienti table: while it runs
\* and after it failed the table holds none of its rows, and the call that
\* failed answered import_failed, not counts; after it succeeded the table
\* holds every qualifying row of the snapshot.
C8_ImportAllOrNothing ==
  /\ imp.pc # "idle" => rowsOfCall(imp.call) = <<>>
  /\ \A i \in 1..Len(impResp) :
       LET r == impResp[i]
       IN  /\ r.kind # "ok" => rowsOfCall(r.call) = <<>> /\ "inserted" \notin DOMAIN r
           /\ r.kind = "ok" => rowsOfCall(r.call) = expectedInserts(placesRead(r), r.call)

\* a call failed after it had executed an INSERT, and a call committed rows
C8_Witness ==
  \E i, k \in 1..Len(impResp) :
    /\ impResp[i].kind = "import_failed" /\ impResp[i].executed >= 1
    /\ impResp[k].kind = "ok" /\ Len(rowsOfCall(impResp[k].call)) = 2

\* C9: a successful import reports total = the number of rows of the
\* snapshot and inserted = the number of those whose name is not blank, and
\* the table received exactly these rows, in snapshot order, each with the
\* status "Non contattato"; a job without a snapshot gives 0 and 0.
C9_ImportCounts ==
  \A i \in 1..Len(impResp) :
    LET r == impResp[i]
        places == placesRead(r)
    IN  r.kind = "ok" =>
          /\ r.total = Len(places)
          /\ r.inserted = Cardinality({k \in 1..Len(places) : trim(places[k].name) # <<>>})
          /\ Len(rowsOfCall(r.call)) = r.inserted
          /\ rowsOfCall(r.call) = expectedInserts(places, r.call)

\* a snapshot with a blank name among its rows was imported
C9_Witness ==
  \E i \in 1..Len(impResp) :
    /\ impResp[i].kind = "ok" /\ impResp[i].snapshot
    /\ impResp[i].total = 2 /\ impResp[i].inserted = 1
    /\ Len(rowsOfCall(impResp[i].call)) = 1

\* ------------------------------------------------------------------------
\* Properties of httpGet (SpecHttp)
\* ------------------------------------------------------------------------
\* a rate-limit status or a server error
rateLimitOrServerError(code) == code = 429 \/ code \in 500..599

\* C10: in one call of httpGet a failure with status 429 or 5xx is retried,
\* any other failure (another status, or no response) is propagated at once,
\* there are never more than 5 attempts, and the failure of the 5th attempt
\* is propagated.
C10_RetryPolicy ==
  LET c == http.codes
      n == Len(c)
  IN  /\ n <= 5 /\ http.attempt <= 5
      /\ http.pc \in {"get", "sleep"} => n = (IF http.pc = "get" THEN http.attempt - 1
                                                                ELSE http.attempt)
      /\ \A i \in 1..n :
           /\ (rateLimitOrServerError(c[i]) /\ i < 5) => (i < n \/ http.pc \in {"sleep", "get"})
           /\ (rateLimitOrServerError(c[i]) /\ i = 5) => http.pc = "thrown"
           /\ (~rateLimitOrServerError(c[i]) /\ c[i] \notin 200..299)
                => (i = n /\ http.pc = "thrown")
           /\ c[i] \in 200..299 => (i = n /\ http.pc = "returned")
      /\ http.pc = "thrown" => (n >= 1 /\ c[n] \notin 200..299)
      /\ http.pc = "returned" => (n >= 1 /\ c[n] \in 200..299)

\* the call was rate limited, retried four times and gave up at the fifth
\* failure
C10_Witness ==
  /\ http.pc = "thrown"
  /\ Len(http.codes) = 5
  /\ http.codes[1] = 429 /\ http.codes[5] = 500

\* the wait the claim gives before attempt n
claimedWaitBefore(n) == Min(2000 * n, 8000)

\* C11: in a call of httpGet the wait before attempt n, for n = 2..5, is
\* min(2000 ms * n, 8000 ms); waits[i] is the wait before attempt i + 1.
C11_BackoffBeforeAttempt ==
  \A i \in 1..Len(http.waits) : http.waits[i] = claimedWaitBefore(i + 1)

\* ------------------------------------------------------------------------
\* Properties of googleSearchAndDetails (SpecSearch)
\* ------------------------------------------------------------------------
\* the positions of the log with the given kind of event
eventsOf(kind) == {i \in 1..Len(gs.log) : gs.log[i].ev = kind}

\* the results of all the pages received so far, in the order received
RECURSIVE received(_)
received(n) ==
  IF n = 0 THEN <<>>
  ELSE received(n - 1) \o (IF gs.log[n].ev = "response" THEN gs.log[n].items ELSE <<>>)

\* C12: the first page is requested without a token; every further page is
\* requested with the token the previous page returned, while the fetched
\* count is below limit, and after the warm-up sleep that followed the
\* receipt of the token; there are at most limit detail lookups, and the
\* records collected are at most limit and are the first results of the
\* pages, in provider order.
C12_Pagination ==
  gs.pc # "idle" =>
    LET pages == eventsOf("page")
        responses == eventsOf("response")
        all_ == received(Len(gs.log))
    IN  /\ \A i \in pages :
             IF \A k \in pages : i <= k
             THEN gs.log[i].token = NULL
             ELSE \E r \in responses :
                    /\ r < i
                    /\ \A k \in (pages \cup responses) : ~(r < k /\ k < i)
                    /\ gs.log[r].token # NULL
                    /\ gs.log[i].token = gs.log[r].token
                    /\ gs.log[i].fetched < gs.limit
                    /\ \E z \in eventsOf("sleep") :
                         r < z /\ z < i /\ gs.log[z].ms = warmupMs
        /\ Cardinality(eventsOf("detail")) <= gs.limit
        /\ Len(gs.out) <= gs.limit
        /\ Len(gs.out) <= Len(all_)
        /\ \A k \in 1..Len(gs.out) : gs.out[k] = all_[k]

\* a call that fetched a second page after the warm-up and stopped at the
\* limit although the provider offered a third page
C12_Witness ==
  /\ gs.pc = "returned"
  /\ gs.limit = 3 /\ Len(gs.out) = 3
  /\ Cardinality(eventsOf("page")) = 2
  /\ gs.token # NULL

\* ------------------------------------------------------------------------
\* Properties of dedupPlaces (SpecDedup)
\* ------------------------------------------------------------------------
\* what identifies a record: name, address and coordinates
identity(p) == <<p.name, p.address, p.lat, p.lng>>

\* the exact key of the spec: normalize(name)|normalize(address)|spatialBucket
exactKey(p) ==
  normStr(p.name) \o <<"|">> \o normStr(p.address) \o <<"|">> \o geoCell(p.lat, p.lng)

\* a record lacks a name, an address or a numeric latitude or longitude
lacksIdentity(p) ==
  p.name = <<>> \/ p.address = <<>> \/ p.lat = Undefined \/ p.lng = Undefined

\* the positions of arr that are kept, and among them the first of each key
keptPositions(arr) == {i \in 1..Len(arr) : ~lacksIdentity(arr[i])}
firstOfKey(arr) ==
  {i \in keptPositions(arr) :
     \A k \in keptPositions(arr) : exactKey(arr[k]) = exactKey(arr[i]) => i <= k}

\* the i-th smallest element of a set of numbers
nth(S, i) == CHOOSE x \in S : Cardinality({y \in S : y <= x}) = i

\* C13: the exact pass drops the records lacking a name, an address or a
\* coordinate, keeps one record per exact key, namely the first record seen
\* with that key (its name, address and coordinates), in the order of first
\* appearance; and no two records of the returned sequence have the same key
\* or lack a name, an address or a coordinate.
C13_ExactPassAndDistinctKeys ==
  /\ dd.pc \in {"fuzzy", "returned", "again"} =>
       LET first == firstOfKey(dd.arr)
       IN  /\ Len(dd.result) = Cardinality(first)
           /\ \A i \in 1..Len(dd.result) :
                identity(dd.result[i]) = identity(dd.arr[nth(first, i)])
  /\ dd.pc \in {"returned", "again"} =>
       /\ \A i \in 1..Len(dd.final) : ~lacksIdentity(dd.final[i])
       /\ \A i, k \in 1..Len(dd.final) :
            exactKey(dd.final[i]) = exactKey(dd.final[k]) => i = k
       /\ \A i \in 1..Len(dd.final) :
            \E k \in firstOfKey(dd.arr) : identity(dd.final[i]) = identity(dd.arr[k])

\* a call whose argument held a record without a location, then two records
\* with the same key
C13_Witness ==
  /\ dd.pc = "returned"
  /\ dd.arr = <<PlaceNoLat, PlaceAB1, PlaceAB1Site>>
  /\ Len(dd.result) = 1 /\ Len(dd.final) = 1
  /\ dd.final[1].name = PlaceAB1.name

\* within 50 m and name similarity at least 0.88
foldable(p, q) ==
  /\ haversineMeters(p.lat, p.lng, q.lat, q.lng) <= 50 * 1000
  /\ AtLeast088(jaroWinkler(p.name, q.name))

\* the positions of the exact-pass output that are accepted among the first n:
\* position n is folded when an accepted earlier one is foldable with it
RECURSIVE acceptedUpTo(_, _)
acceptedUpTo(result, n) ==
  IF n = 0 THEN {}
  ELSE LET before == acceptedUpTo(result, n - 1)
       IN  IF \E k \in before : foldable(result[n], result[k])
           THEN before ELSE before \cup {n}

\* the accepted position that position n is folded into (n itself when it is
\* accepted): the first accepted one it is foldable with
canonicalOf(result, n) ==
  LET before == acceptedUpTo(result, n - 1)
      cands == {k \in before : foldable(result[n], result[k])}
  IN  IF cands = {} THEN n ELSE CHOOSE k \in cands : \A h \in cands : k <= h

\* the positions folded into accepted position a, a included
groupOf(result, a) == {n \in 1..Len(result) : canonicalOf(result, n) = a}

\* the largest number of a non-empty set
maxOf(S) == CHOOSE x \in S : \A y \in S : x >= y

\* C14: the fuzzy pass returns one record per accepted record of the
\* exact-pass output, in acceptance order, each with the name, address and
\* coordinates of the accepted (first-seen) record; a record that is within
\* 50 m and similarity >= 0.88 of accepted records is folded into the first
\* of them (the rating of the group shows where it went); and the
\* same three records give two records or one, depending on their order.
C14_FuzzyFirstAccepted ==
  dd.pc \in {"returned", "again"} =>
    LET result == dd.result
        acc == acceptedUpTo(result, Len(result))
    IN  /\ Len(dd.final) = Cardinality(acc)
        /\ \A i \in 1..Len(dd.final) :
             LET a == nth(acc, i)
                 group == groupOf(result, a)
             IN  /\ identity(dd.final[i]) = identity(result[a])
                 /\ dd.final[i].rating = maxOf({result[n].rating : n \in group})
        /\ dd.arr = <<PlaceAB1, PlaceABFar, PlaceABMid>> =>
             /\ Len(dd.final) = 2
             /\ identity(dd.final[1]) = identity(PlaceAB1)
             /\ identity(dd.final[2]) = identity(PlaceABFar)
        /\ dd.arr = <<PlaceABMid, PlaceAB1, PlaceABFar>> =>
             /\ Len(dd.final) = 1
             /\ identity(dd.final[1]) = identity(PlaceABMid)

\* a record within reach of two accepted records went into the first one
C14_Witness ==
  /\ dd.pc = "returned"
  /\ dd.arr = <<PlaceAB1, PlaceABFar, PlaceABMid>>
  /\ Len(dd.result) = 3 /\ Len(dd.final) = 2
  /\ dd.final[1].rating = 5 /\ dd.final[1].name = PlaceAB1.name
  /\ dd.final[2].rating = 2 /\ dd.final[2].name = PlaceABFar.name

\* the elements of a sequence
Range(q) == {q[i] : i \in 1..Len(q)}

\* the value a merged record has for website or phone: the canonical
\* record's when it has one, else the first non-empty one of the records
\* folded into it, in order
firstNonEmpty(values, group) ==
  LET having == {n \in group : values[n] # <<>>}
  IN  IF having = {} THEN <<>> ELSE values[CHOOSE n \in having : \A h \in having : n <= h]

\* merged carries every (provider, id) pair of ids
holdsIds(merged, ids) ==
  \A provider \in DOMAIN ids : provider \in DOMAIN merged /\ merged[provider] = ids[provider]

\* merged is the outcome of the merge policy on the records members[n], n in
\* group, folded in order into the first of them; sources[n] is what member n
\* brings as sources
mergedByPolicy(merged, members, group, sources) ==
  /\ Range(merged.sources) = UNION {Range(sources[n]) : n \in group}
  /\ \A n \in group : holdsIds(merged.placeIds, members[n].placeIds)
  /\ merged.website = firstNonEmpty([n \in group |-> members[n].website], group)
  /\ merged.phone = firstNonEmpty([n \in group |-> members[n].phone], group)
  /\ merged.rating = maxOf({members[n].rating : n \in group})

\* the source each raw record brings, the sources each merged record brings
ownSource(arr) == [n \in 1..Len(arr) |-> IF arr[n].source = "" THEN <<>> ELSE <<arr[n].source>>]
ownSources(result) == [n \in 1..Len(result) |-> result[n].sources]

\* the positions of arr merged into the exact-pass record r
exactGroup(arr, r) == {k \in keptPositions(arr) : exactKey(arr[k]) = exactKey(r)}

\* C15: every record of the exact pass is its group merged by the policy
\* (sources and sourceIds united, website and phone of the canonical record
\* unless empty, the largest rating), and so is every record of the fuzzy
\* pass over the exact-pass output.
C15_MergePolicy ==
  /\ dd.pc \in {"fuzzy", "returned", "again"} =>
       \A i \in 1..Len(dd.result) :
         mergedByPolicy(dd.result[i], dd.arr, exactGroup(dd.arr, dd.result[i]),
                        ownSource(dd.arr))
  /\ dd.pc \in {"returned", "again"} =>
       \A i \in 1..Len(dd.final) :
         LET a == nth(acceptedUpTo(dd.result, Len(dd.result)), i)
         IN  mergedByPolicy(dd.final[i], dd.result, groupOf(dd.result, a),
                            ownSources(dd.result))

\* C16: deduplicating the output of dedupPlaces again returns that output:
\* the same number of records, in the same order, with the same name,
\* address, coordinates, sources, ids, website, phone and rating.
C16_DedupIdempotent ==
  dd.pc = "again" =>
    /\ Len(dd.again) = Len(dd.final)
    /\ \A i \in 1..Len(dd.final) :
         /\ identity(dd.again[i]) = identity(dd.final[i])
         /\ dd.again[i].sources = dd.final[i].sources
         /\ dd.again[i].placeIds = dd.final[i].placeIds
         /\ dd.again[i].website = dd.final[i].website
         /\ dd.again[i].phone = dd.final[i].phone
         /\ dd.again[i].rating = dd.final[i].rating

\* the second call was given the outcome of an exact merge and a fuzzy merge
C16_Witness ==
  /\ dd.pc = "again"
  /\ dd.arr = <<PlaceAB1, PlaceAB1Site, PlaceABMid>>
  /\ Len(dd.final) = 1 /\ Len(dd.again) = 1
  /\ dd.again[1].rating = 5 /\ dd.again[1].website = <<"site7">>

\* ------------------------------------------------------------------------
\* Properties of jaroWinkler (SpecSim)
\* ------------------------------------------------------------------------
\* a fraction <<numerator, denominator>> is 1, is 0, equals another
isOne(q) == q[1] = q[2]
isZero(q) == q[1] = 0
sameFraction(q, r) == q[1] * r[2] = r[1] * q[2]

\* normalize of the spec: trimmed, lower case, inner white space collapsed
normalized(s) == CollapseSpaces([i \in 1..Len(trim(s)) |-> toLowerCase(trim(s)[i])])

\* C17: the similarity of a string with itself is 1 when the string is not
\* empty after normalization, strings of length 1 included, and the
\* similarity of the empty string with any string is 0.
C17_SelfSimilarity ==
  sim.pc \in {"returned", "swapped"} =>
    /\ (sim.a = sim.b /\ normalized(sim.a) # <<>>) => isOne(sim.value)
    /\ sim.a = <<>> => isZero(sim.value)

\* C18: the similarity is symmetric: jaroWinkler(a, b) and jaroWinkler(b, a)
\* are the same number, also when one name is a proper prefix of the other.
C18_SimilaritySymmetric ==
  sim.pc = "swapped" => sameFraction(sim.value, sim.swapped)

\* ------------------------------------------------------------------------
\* Properties of the codec (SpecCodec)
\* ------------------------------------------------------------------------
\* the columns encode fills from the record
writtenColumns ==
  {"name", "site", "city", "category", "phone_1", "latitude", "longitude", "status"}

\* the position of a column in the header
columnIndex(col) == CHOOSE k \in 1..Len(csvHeader) : csvHeader[k] = <<col>>

\* a value holds a character the format reserves
hasReserved(v) == \E i \in 1..Len(v) : v[i] \in {",", "\"", "\n", "\r"}

\* C19: decoding the encoding of a record sequence gives one row per record,
\* in order, and every column encode fills is read back as the text that was
\* written, also when it holds commas, double quotes or line breaks.
C19_CodecRoundTrip ==
  codec.pc = "parsed" =>
    /\ Len(codec.arr) = Len(codec.unique)
    /\ \A i \in 1..Len(codec.unique) :
         \A col \in writtenColumns :
           /\ <<col>> \in DOMAIN codec.arr[i]
           /\ codec.arr[i][<<col>>] = csvRow(codec.unique[i])[columnIndex(col)]

\* two records went through the codec, with a comma, a quote and a line feed
\* in a name and a carriage return and line feed in a phone
C19_Witness ==
  /\ codec.pc = "parsed"
  /\ codec.all = <<PlaceEdgeQuotes, PlaceQuoted>>
  /\ Len(codec.unique) = 2
  /\ Len(codec.arr) = 2
  /\ codec.arr[2][<<"name">>] = <<"x", ",", "\"", "\n", "y">>
  /\ codec.arr[1][<<"phone_1">>] = <<"1", "\r", "\n", "2">>
  /\ hasReserved(codec.arr[1][<<"site">>])

\* ------------------------------------------------------------------------
\* Properties of GET /v1/jobs/:id/count (SpecCount)
\* ------------------------------------------------------------------------
\* C20: the total GetJobRowCount returns is the number of rows decode yields
\* for the snapshot it read, which is the total ImportJob reports (arr.length
\* of parseCsv), also when a value holds a line break; without a snapshot it
\* is 0.
C20_CountIsDecodedRows ==
  cnt.status = 200 =>
    /\ cnt.total = Len(parseCsv(cnt.csv))
    /\ cnt.csv = <<>> => cnt.total = 0

\* ------------------------------------------------------------------------
\* Frame of the Run (Spec)
\* ------------------------------------------------------------------------
\* the Run of job j is at work: its handler has responded
inRun(j) == pc[j] \in workerPcs

\* rows a and b differ at most in status, progress, error, name and snapshot
sameUnwritten(a, b) ==
  /\ a # NoRow /\ b # NoRow
  /\ a.params = b.params

\* a step in which the record of job j changes is a step of the handler or
\* Run of job j, leaves every other record alone, and when it is a step of
\* the Run it keeps params and, unless nameless(j), the name
runFrame(j, nameless) ==
  jobs'[j] # jobs[j] =>
    /\ pc'[j] # pc[j]
    /\ \A k \in JobIds \ {j} : jobs'[k] = jobs[k] /\ pc'[k] = pc[k]
    /\ inRun(j) =>
         /\ sameUnwritten(jobs[j], jobs'[j])
         /\ jobs'[j].name # jobs[j].name => nameless

\* C21 as stated: a write of the Run of job j changes only the record of job
\* j, never its params, and its name only when the caller supplied no name.
C21_RunFrame ==
  [][\A j \in JobIds : runFrame(j, parsed[j][1].name = NULL)]_vars

\* C21 as amended: the same, the name being written only when the caller
\* supplied no name or a name that is blank once trimmed.
C21_RunFrameBlankName ==
  [][\A j \in JobIds : runFrame(j, parsed[j][1].name = NULL
                                     \/ trim(parsed[j][1].name[1]) = <<>>)]_vars

\* two Runs ended side by side: the job with the caller's name kept it, the
\* job without one got the friendly name
C21_Witness ==
  \E j, k \in JobIds :
    /\ j # k
    /\ jobs[j] # NoRow /\ jobs[j].status = "completed"
    /\ parsed[j][1].name = Some(validName) /\ jobs[j].name = validName
    /\ jobs[k] # NoRow /\ jobs[k].status = "completed"
    /\ parsed[k][1].name = NULL /\ jobs[k].name # hist[k][1].row.name

\* ------------------------------------------------------------------------
\* Failures of the Run's own writes (Spec)
\* ------------------------------------------------------------------------
\* a write of the Run of job j failed: one of its upd calls threw (the catch
\* holds the store's error), or the UPDATE of the catch itself threw
runWriteFailed(j) ==
  \/ err[j] = Some(DbError)
  \/ pc[j] = "unhandled"

\* C22: when a write of the Run is itself the failure point, the write that
\* records status failed included, the Run still ends by returning, nothing
\* escapes the background task as an unhandled error, and the record is the
\* one the last successful write left.
C22_WriteFailureContained ==
  \A j \in JobIds :
    (runWriteFailed(j) /\ workerEnded(j)) =>
      /\ pc[j] = "done"
      /\ jobs[j] = Last(hist[j]).row

\* the writes applied to job j, by name
ops(j) == [i \in 1..Len(hist[j]) |-> hist[j][i].op]

\* the Run of job j is past the snapshot step and the snapshot UPDATE failed
snapshotLost(j) ==
  /\ pc[j] \in {"complete", "catch", "done", "unhandled"}
  /\ \E i \in 1..Len(hist[j]) : ops(j)[i] = "progress"
  /\ \A i \in 1..Len(hist[j]) : ops(j)[i] # "csv"

\* what holds of job j once its snapshot UPDATE has failed
afterSnapshotLost(j) ==
  snapshotLost(j) =>
    /\ jobs[j].results_csv = NULL
    /\ pc[j] = "complete" =>
         /\ err[j] = NULL
         /\ jobs[j].status = "running" /\ jobs[j].error = NULL
    /\ (pc[j] = "done" /\ err[j] = NULL) =>
         /\ Last(ops(j)) = "completed"
         /\ jobs[j].status = "completed" /\ jobs[j].progress = 100
         /\ jobs[j].error = NULL

\* the snapshot step of job j always hands over to the completing step,
\* whether its UPDATE succeeded or not, and never to the catch
snapshotStep(j) ==
  (pc[j] = "csv" /\ pc'[j] # "csv") => (pc'[j] = "complete" /\ err'[j] = NULL)

\* C23: a snapshot UPDATE that fails is ignored: the Run does not go to the
\* catch and records no error, the job is still running and the Run goes on
\* to the completing write; when that write succeeds the job is completed
\* with progress 100, no error and no snapshot.
C23_SnapshotFailureIgnored ==
  /\ [](\A j \in JobIds : afterSnapshotLost(j))
  /\ [][\A j \in JobIds : snapshotStep(j)]_vars

\* a completed job without a snapshot
C23_Witness ==
  \E j \in JobIds :
    /\ snapshotLost(j) /\ pc[j] = "done"
    /\ jobs[j].status = "completed" /\ jobs[j].progress = 100
    /\ jobs[j].results_csv = NULL /\ jobs[j].error = NULL

\* ------------------------------------------------------------------------
\* Properties of the partner router (SpecPartner)
\* ------------------------------------------------------------------------
\* C24: a GET of /api/partner/export is handled by the export handler, no
\* earlier route taking it, and when the database answers the response is
\* the CSV of all partners: the header row and one row per partner.
C24_ExportRouteReached ==
  (preq.pc \in {"handling", "responded"} /\ preq.method = "GET" /\ preq.path = "export") =>
    /\ preq.handler = "export"
    /\ preq.pc = "responded" =>
         \/ preq.response = [status |-> 200, body |-> "csv", rows |-> 1 + Cardinality(partners)]
         \/ preq.response = [status |-> 500, body |-> "export_failed", rows |-> 0]

\* ------------------------------------------------------------------------
\* Termination (SpecLive)
\* ------------------------------------------------------------------------
\* C25: a job whose creation returned an id ends completed or failed, when
\* every provider call returns and no write of the worker fails (a failed
\* write shows as the database error in err, or as the rejected callback).
C25_JobEnds ==
  \A j \in ImportJobIds :
    (resp[j] = "jobId") ~>
      \/ jobs[j] # NoRow /\ jobs[j].status \in {"completed", "failed"}
      \/ err[j] = Some(DbError)
      \/ pc[j] = "unhandled"

\* C26: a search call whose provider calls all return successfully comes to
\* its return: the pagination loop does not run forever.
C26_SearchReturns == (pg.pc = "page") ~> (pg.pc \in {"returned", "thrown"})

\* ------------------------------------------------------------------------
\* Progress and status (Spec)
\* ------------------------------------------------------------------------
\* C27: the progress is raised to 100 when the search returns, before the
\* deduplication and the snapshot: a worker that stands before the snapshot
\* write has its job running with progress 100 and no snapshot, and the write
\* of the progress is the one that follows the write of the running status.
C27_ProgressBeforeSnapshot ==
  \A j \in JobIds :
    /\ pc[j] = "csv" =>
         /\ jobs[j].status = "running"
         /\ jobs[j].progress = 100
         /\ jobs[j].results_csv = NULL
         /\ Last(hist[j]).op = "progress"
    /\ \A i \in 1..Len(hist[j]) :
         hist[j][i].op = "progress" =>
           /\ hist[j][i].row.progress = 100
           /\ hist[j][i - 1].op = "running"
           /\ \A k \in 1..i : hist[j][k].op # "csv"

\* one job running with progress 100 and no snapshot, and another that ended
\* failed with progress 100
C27_Witness ==
  \E j, k \in JobIds :
    /\ pc[j] = "csv" /\ jobs[j].status = "running" /\ jobs[j].progress = 100
    /\ jobs[j].results_csv = NULL
    /\ pc[k] = "done" /\ jobs[k].status = "failed" /\ jobs[k].progress = 100

\* ------------------------------------------------------------------------
\* Repeated imports (SpecImport)
\* ------------------------------------------------------------------------
\* the import calls that succeeded on the snapshot of job j
importsOf(j) ==
  {i \in 1..Len(impResp) : impResp[i].kind = "ok" /\ impResp[i].job = j /\ impResp[i].snapshot}

\* the rows the clienti table received from the snapshot imports of job j
receivedFrom(j) ==
  SelectSeq(clienti, LAMBDA r : \E i \in importsOf(j) : impResp[i].call = r.call)

\* a step of the import handler
importStepped == imp' # imp \/ impResp' # impResp \/ clienti' # clienti

\* C29: the import is not idempotent and looks at neither the status of the
\* job nor at earlier imports: after k successful imports of a snapshot with m
\* rows whose name is not blank the clienti table has received k * m rows from
\* them, and no step of an import changes the record of the job.
C29_ImportsAddUp ==
  /\ [](\A j \in ImportJobIds :
          Len(receivedFrom(j))
            = Cardinality(importsOf(j)) * Len(qualifying(dedupPlaces(all[j]))))
  /\ [][importStepped => UNCHANGED <<jobs, hist>>]_vars

\* two imports succeeded on the one-row snapshot of a job that ended failed,
\* and the table holds the row twice
C29_Witness ==
  \E j \in ImportJobIds :
    /\ Cardinality(importsOf(j)) = 2
    /\ Len(qualifying(dedupPlaces(all[j]))) = 1
    /\ Len(clienti) = 2
    /\ clienti[1].name = clienti[2].name
    /\ jobs[j].status = "failed"

\* ------------------------------------------------------------------------
\* Readers of the snapshot during the Run (SpecReaders)
\* ------------------------------------------------------------------------
\* the number of records of the snapshot the Run of job j writes
finalRows(j) == Len(dedupPlaces(all[j]))

\* every import that succeeded reports total 0 or the number of records
importSeesWhole ==
  \A i \in 1..Len(impResp) :
    impResp[i].kind = "ok" => impResp[i].total \in {0, finalRows(impResp[i].job)}

\* the count is 0 or the number of records
countSeesWhole == cnt.status = 200 => cnt.total \in {0, finalRows(cnt.job)}

\* the preview is the page asked for of 0 rows or of all the records
previewSeesWhole ==
  (rd.status = 200 /\ rd.op = "preview") =>
    /\ rd.rows \in {0, finalRows(rd.job)}
    /\ Len(rd.items) = Min(rd.limit, Max(rd.rows - rd.offset, 0))

\* the export is empty or holds all the records
exportSeesWhole ==
  (rd.status = 200 /\ rd.op = "export") =>
    IF rd.format = "csv"
    THEN rd.text \in {<<>>, placesToCsv(dedupPlaces(all[rd.job]))}
    ELSE rd.rows \in {0, finalRows(rd.job)}

\* C28: whatever the moment of the Run at which they are called, the import,
\* the count, the preview and the export see the snapshot absent or whole:
\* with n records in the snapshot, the import reports total 0 or n and the
\* count, the preview and the export answer for 0 or n rows.
C28_ReadersSeeWholeSnapshot ==
  importSeesWhole /\ countSeesWhole /\ previewSeesWhole /\ exportSeesWhole

\* ------------------------------------------------------------------------
\* Coherence of the cache of the client registry (SpecCache)
\* ------------------------------------------------------------------------
\* C30: a GET that arrives after the PUT or DELETE responded is never
\* answered from the cache with the row as it was before the write.
C30_NoStaleHit ==
  \A g \in GetIds :
    (gets[g].pc = "done" /\ gets[g].after /\ gets[g].status = 200
       /\ gets[g].xcache = "HIT") => gets[g].row # OldRow

====
